---- MODULE Spec2Model ----
(***************************************************************************)
(* PotatoMesh -> Matrix bridge (src/matrix/src).                           *)
(*                                                                         *)
(* The module models                                                       *)
(*   - BridgeState, the checkpoint (should_forward, update_with, load,     *)
(*     save) of main.rs;                                                   *)
(*   - the forwarding loop (main, poll_once, handle_message) of main.rs    *)
(*     with every external call as one step that the environment answers,  *)
(*     the state file, and a process restart that reloads it;              *)
(*   - the Synapse listener of matrix_server.rs (token extraction, token   *)
(*     comparison, the transaction handler, the listener task);            *)
(*   - concurrent calls of PotatoClient::get_node on the shared cache;     *)
(*   - the pure helpers of handle_message (display name, message bodies,   *)
(*     HTML escaping, puppet localpart and user id);                       *)
(*   - the transaction counter of MatrixAppserviceClient (matrix.rs).      *)
(*                                                                         *)
(* Specifications:                                                         *)
(*   Spec       the forwarding loop from a first run (no state file), with *)
(*              arbitrary upstream batches, failures and restarts.         *)
(*   LiveSpec   the forwarding loop without restarts, where every fetch    *)
(*              returns every upstream message, at most MaxFaults external *)
(*              calls fail, and the loop keeps running (weak fairness).    *)
(*   CkptSpec   should_forward / update_with called with arbitrary         *)
(*              messages from an arbitrary checkpoint.                     *)
(*   FreshSpec  the same calls from the empty checkpoint.                  *)
(*   PlanSpec   build_fetch_params / update_with called from an arbitrary  *)
(*              checkpoint.                                                *)
(*   FileSpec   load and save called on arbitrary checkpoints and files.   *)
(*   ListenerSpec  the listener alone, answering arbitrary requests.       *)
(*   BridgeSpec the forwarding loop with the listener task beside it.      *)
(*   CacheSpec  MaxCallers tasks calling get_node on one PotatoClient.     *)
(*   RunSpec    the forwarding loop without restarts under any failures,   *)
(*              kept running (weak fairness).                              *)
(*   LifeSpec   one process lifetime: the loop without restarts, started   *)
(*              from the state file it finds.                              *)
(*   PureSpec   the pure helpers applied to arbitrary short inputs.        *)
(*   TxnSpec    MaxCallers clones of the chat client sending messages.     *)
(***************************************************************************)
EXTENDS Integers, Sequences, FiniteSets, TLC

\* ------------------------------------------------------------------ bounds

\* message ids of the checkpoint specifications are 1..MaxId
MaxId == 3
\* receipt times are 1..MaxTime
MaxTime == 2
\* the mesh API holds the messages 1..MaxUpstream
MaxUpstream == 2
\* a fetch returns at most MaxBatch messages
MaxBatch == 2
\* LiveSpec: the number of external calls that may fail
MaxFaults == 2

\* Option::None of the Option<u64> fields (ids and times are >= 1 here)
None == -1

Ids == 1..MaxId
Times == 1..MaxTime
UpstreamIds == 1..MaxUpstream

TEXT_MESSAGE_APP == "TEXT_MESSAGE_APP"
\* portnum values: the text port, another port, and None as "" (absent)
NoPort == ""
Ports == {TEXT_MESSAGE_APP, "POSITION_APP", NoPort}

\* ------------------------------------------------------------- variables

VARIABLES
    state,          \* main's BridgeState, the in-memory checkpoint
    disk,           \* the state file
    pc,             \* where the forwarding loop stands
    msgs,           \* poll_once: what `for msg in &msgs` has not yet taken,
                    \* the message being processed first
    nodes_cache,    \* PotatoClient.nodes_cache: cache key -> cached node
    upstream,       \* the messages the mesh API holds: id -> rx_time, portnum
    fair,           \* TRUE when the environment is the one of LiveSpec
    faults,         \* LiveSpec: failed external calls so far
    sent,           \* history: ids whose send_formatted_message_as succeeded
    failed,         \* history: ids whose handle_message failed in this cycle
    outcome,        \* history: how the processing of the last message ended
    before,         \* history: <<state, disk>> when the message was examined
    writes,         \* history: calls of persist_state for the current message
    params,         \* the FetchParams last built, while they matter: those of
                    \* a fetch that failed, until the next fetch
    fetched,        \* history: the batch as the mesh API returned it, until
                    \* the first message is taken from it
    sync,           \* history: the state file against the in-memory
                    \* checkpoint, as the results of fs::write tell it
    registered,     \* history: how the registration request of the message
                    \* in handle_message ended ("none" before it)
    listener,       \* the task of spawn_synapse_listener and its SynapseState
    exchange,       \* listener: the last request handled and its answer
    calls,          \* cache specs: the get_node calls in progress, per caller
    applied,        \* the last call of a pure function: arguments and result
    txn,            \* MatrixAppserviceClient.txn_counter, the sends in
                    \* progress on the client's clones and the ids taken
    lastOp,         \* checkpoint specs: the last call and its result
    probe,          \* checkpoint specs: one message, chosen initially
    probeRecorded   \* checkpoint specs: update_with(probe) has been called

vars == <<state, disk, pc, msgs, nodes_cache, upstream, fair, faults,
          sent, failed, outcome, before, writes, params, fetched, sync,
          registered, listener, exchange, calls, applied, txn,
          lastOp, probe, probeRecorded>>

loopVars == <<state, disk, pc, msgs, nodes_cache, upstream, fair, faults,
              sent, failed, outcome, before, writes, params, fetched, sync,
              registered>>

histVars == <<params, fetched, sync>>

otherVars == <<listener, exchange, calls, applied, txn>>

ckptVars == <<lastOp, probe, probeRecorded>>

\* ------------------------------------------------------------ BridgeState

\* Vec::contains
Contains(v, x) == \E i \in 1..Len(v) : v[i] = x

\* BridgeState::default()
DefaultState ==
    [last_message_id |-> None, last_rx_time |-> None,
     last_rx_time_ids |-> <<>>, last_checked_at |-> None]

\* should_forward with the tie decided by last_message_id instead of the ids
\* recorded at last_rx_time
should_forward_TieById(s, msg) ==
    IF s.last_rx_time = None
    THEN IF s.last_message_id = None
         THEN TRUE
         ELSE msg.id > s.last_message_id
    ELSE IF msg.rx_time > s.last_rx_time
         THEN TRUE
         ELSE IF msg.rx_time < s.last_rx_time
              THEN FALSE
              ELSE msg.id > s.last_message_id

\* should_forward with `>=` in the id comparison
should_forward_AdmitsEqualId(s, msg) ==
    IF s.last_rx_time = None
    THEN IF s.last_message_id = None
         THEN TRUE
         ELSE msg.id >= s.last_message_id
    ELSE IF msg.rx_time > s.last_rx_time
         THEN TRUE
         ELSE IF msg.rx_time < s.last_rx_time
              THEN FALSE
              ELSE ~Contains(s.last_rx_time_ids, msg.id)

\* should_forward admitting every message of the time last recorded
should_forward_IgnoresRecordedIds(s, msg) ==
    IF s.last_rx_time = None
    THEN IF s.last_message_id = None
         THEN TRUE
         ELSE msg.id > s.last_message_id
    ELSE msg.rx_time >= s.last_rx_time

\* should_forward deciding by the ids recorded alone, whatever the time
should_forward_AdmitsOlder(s, msg) ==
    IF s.last_rx_time = None
    THEN IF s.last_message_id = None
         THEN TRUE
         ELSE msg.id > s.last_message_id
    ELSE IF msg.rx_time > s.last_rx_time
         THEN TRUE
         ELSE ~Contains(s.last_rx_time_ids, msg.id)

\* BridgeState::should_forward
should_forward(s, msg) ==
    IF s.last_rx_time = None
    THEN IF s.last_message_id = None
         THEN TRUE
         ELSE msg.id > s.last_message_id
    ELSE IF msg.rx_time > s.last_rx_time
         THEN TRUE
         ELSE IF msg.rx_time < s.last_rx_time
              THEN FALSE
              ELSE ~Contains(s.last_rx_time_ids, msg.id)

\* update_with without the branch that appends an id at an equal time
update_with_NoTieAppend(s, msg) ==
    LET s1 == [s EXCEPT !.last_message_id = msg.id]
    IN  IF s1.last_rx_time = None \/ msg.rx_time > s1.last_rx_time
        THEN [s1 EXCEPT !.last_rx_time = msg.rx_time,
                        !.last_rx_time_ids = <<msg.id>>]
        ELSE s1

\* update_with setting last_rx_time the way it sets last_message_id
update_with_AlwaysSetsRxTime(s, msg) ==
    LET s1 == [s EXCEPT !.last_message_id = msg.id]
    IN  IF s1.last_rx_time = None \/ msg.rx_time # s1.last_rx_time
        THEN [s1 EXCEPT !.last_rx_time = msg.rx_time,
                        !.last_rx_time_ids = <<msg.id>>]
        ELSE IF ~Contains(s1.last_rx_time_ids, msg.id)
             THEN [s1 EXCEPT !.last_rx_time_ids = Append(@, msg.id)]
             ELSE s1

\* update_with pushing onto the old ids when last_rx_time advances
update_with_KeepsIdsOnAdvance(s, msg) ==
    LET s1 == [s EXCEPT !.last_message_id = msg.id]
    IN  IF s1.last_rx_time = None \/ msg.rx_time > s1.last_rx_time
        THEN [s1 EXCEPT !.last_rx_time = msg.rx_time,
                        !.last_rx_time_ids = Append(@, msg.id)]
        ELSE IF msg.rx_time = s1.last_rx_time
                /\ ~Contains(s1.last_rx_time_ids, msg.id)
             THEN [s1 EXCEPT !.last_rx_time_ids = Append(@, msg.id)]
             ELSE s1

\* update_with putting a tied id in front of last_rx_time_ids
update_with_PrependsTieId(s, msg) ==
    LET s1 == [s EXCEPT !.last_message_id = msg.id]
    IN  IF s1.last_rx_time = None \/ msg.rx_time > s1.last_rx_time
        THEN [s1 EXCEPT !.last_rx_time = msg.rx_time,
                        !.last_rx_time_ids = <<msg.id>>]
        ELSE IF msg.rx_time = s1.last_rx_time
                /\ ~Contains(s1.last_rx_time_ids, msg.id)
             THEN [s1 EXCEPT !.last_rx_time_ids = <<msg.id>> \o @]
             ELSE s1

\* update_with with `>=` in the comparison of the receipt times
update_with_ResetsOnEqual(s, msg) ==
    LET s1 == [s EXCEPT !.last_message_id = msg.id]
    IN  IF s1.last_rx_time = None \/ msg.rx_time >= s1.last_rx_time
        THEN [s1 EXCEPT !.last_rx_time = msg.rx_time,
                        !.last_rx_time_ids = <<msg.id>>]
        ELSE IF msg.rx_time = s1.last_rx_time
                /\ ~Contains(s1.last_rx_time_ids, msg.id)
             THEN [s1 EXCEPT !.last_rx_time_ids = Append(@, msg.id)]
             ELSE s1

\* update_with keeping the highest id seen in last_message_id
update_with_HighestId(s, msg) ==
    LET s1 == [s EXCEPT !.last_message_id =
                           IF @ # None /\ @ > msg.id THEN @ ELSE msg.id]
    IN  IF s1.last_rx_time = None \/ msg.rx_time > s1.last_rx_time
        THEN [s1 EXCEPT !.last_rx_time = msg.rx_time,
                        !.last_rx_time_ids = <<msg.id>>]
        ELSE IF msg.rx_time = s1.last_rx_time
                /\ ~Contains(s1.last_rx_time_ids, msg.id)
             THEN [s1 EXCEPT !.last_rx_time_ids = Append(@, msg.id)]
             ELSE s1

\* BridgeState::update_with
update_with(s, msg) ==
    LET s1 == [s EXCEPT !.last_message_id = msg.id]
    IN  IF s1.last_rx_time = None \/ msg.rx_time > s1.last_rx_time
        THEN [s1 EXCEPT !.last_rx_time = msg.rx_time,
                        !.last_rx_time_ids = <<msg.id>>]
        ELSE IF msg.rx_time = s1.last_rx_time
                /\ ~Contains(s1.last_rx_time_ids, msg.id)
             THEN [s1 EXCEPT !.last_rx_time_ids = Append(@, msg.id)]
             ELSE s1

\* The state file: it is missing, empty (or whitespace only), or holds a
\* JSON document with the fields of BridgeState
NoDoc ==
    [last_message_id |-> None, last_rx_time |-> None,
     last_rx_time_ids |-> <<>>, last_checked_at |-> None]
MissingFile == [content |-> "missing", doc |-> NoDoc]
EmptyFile == [content |-> "empty", doc |-> NoDoc]
\* a file of white space only, and one that is no JSON document of BridgeState
WhitespaceFile == [content |-> "whitespace", doc |-> NoDoc]
GarbageFile == [content |-> "garbage", doc |-> NoDoc]

\* BridgeState::save: the document written; last_checked_at is
\* skip_serializing, so the document never carries it
save(s) ==
    [content |-> "json",
     doc |-> [last_message_id |-> s.last_message_id,
              last_rx_time |-> s.last_rx_time,
              last_rx_time_ids |-> s.last_rx_time_ids,
              last_checked_at |-> None]]

\* load letting a legacy last_checked_at replace the file's last_rx_time
load_PrefersLegacy(file) ==
    IF file.content = "missing"
    THEN DefaultState
    ELSE IF file.content = "empty"
         THEN DefaultState
         ELSE LET s == file.doc
              IN  [s EXCEPT !.last_rx_time =
                               IF s.last_checked_at # None
                               THEN s.last_checked_at ELSE s.last_rx_time,
                            !.last_checked_at = None]

\* load asking for a document in the file
load_ok_RequiresDocument(file) == file.content = "json"

\* BridgeState::load returns Ok: all but serde_json::from_str(&data)? failing
\* (read_to_string of a file that exists is taken to succeed)
load_ok(file) == file.content # "garbage"

\* BridgeState::load: a missing or empty file is the default state; otherwise
\* the legacy last_checked_at becomes last_rx_time when that one is absent
load(file) ==
    IF file.content = "missing"
    THEN DefaultState
    ELSE IF file.content = "empty" \/ file.content = "whitespace"
         THEN DefaultState
         ELSE LET s == file.doc
              IN  [s EXCEPT !.last_rx_time =
                               IF s.last_rx_time = None
                               THEN s.last_checked_at ELSE s.last_rx_time,
                            !.last_checked_at = None]

\* results of fs::write: written; failed before the file was opened (the file
\* is as it was); failed after File::create truncated it (the file is empty)
WriteResults == {"written", "failed", "failed_truncated"}

\* persist_state: the file after the call; a failed write is only logged
persist_state(s, file, w) ==
    IF w = "written" THEN save(s)
    ELSE IF w = "failed_truncated" THEN EmptyFile
    ELSE file

\* ------------------------------------------------------ external clients

\* How an HTTP request ends: a 2xx response, another status, no response
Responses == {"success", "status_error", "transport_error"}

\* PotatoClient::fetch_messages: send()? and error_for_status()?
fetch_messages_ok(r) == r = "success"

\* PotatoClient::get_node on a cache miss: send()? and error_for_status()?
get_node_ok(r) == r = "success"

\* ensure_user_registered returning Err for a status that is not a success
ensure_user_registered_ok_ChecksStatus(r) == r = "success"

\* MatrixAppserviceClient::ensure_user_registered: send()?, any status is Ok
ensure_user_registered_ok(r) == r # "transport_error"

\* ensure_user_joined_room taking every response for a join
ensure_user_joined_room_ok_IgnoresStatus(r) == r # "transport_error"

\* MatrixAppserviceClient::ensure_user_joined_room: send()?, non-2xx is Err
ensure_user_joined_room_ok(r) == r = "success"

\* MatrixAppserviceClient::set_display_name: send()?, any status is Ok
set_display_name_ok(r) == r # "transport_error"

\* MatrixAppserviceClient::send_formatted_message_as: send()?, non-2xx is Err
send_formatted_message_as_ok(r) == r = "success"

\* str::trim_start_matches(ch) on a string held as a sequence of characters
RECURSIVE trim_start_matches(_, _)
trim_start_matches(str, ch) ==
    IF str # <<>> /\ Head(str) = ch
    THEN trim_start_matches(Tail(str), ch)
    ELSE str

\* get_node keying the cache by the node id as it is given
NodeKey_AsGiven(node_id) == node_id

\* get_node's cache key: the node id without its leading '!'
NodeKey(node_id) == trim_start_matches(node_id, "!")

\* The revisions of a node's metadata the mesh API may answer with; the
\* forwarding loop, which reads nothing of it here, is answered with LoopRev
NodeRevs == {"rev_a", "rev_b"}
LoopRev == "rev_a"

\* A PotatoNode, as far as the cache is concerned
Node(key, rev) == [node_id |-> key, rev |-> rev]
NoNode == Node(<<>>, "")

\* HashMap::new() and HashMap::insert
EmptyCache == [k \in {} |-> NoNode]
CachePut(cache, key, node) ==
    [k \in (DOMAIN cache) \cup {key} |-> IF k = key THEN node ELSE cache[k]]

\* The node ids of the upstream messages
NodeIds == << <<"!", "a">>, <<"!", "b">>, <<"a">> >>
NodeIdOf(id) == NodeIds[((id - 1) % Len(NodeIds)) + 1]

\* The PotatoMessage the mesh API holds under `id` (the fields the bridge's
\* control flow reads)
UpstreamMsg(id) ==
    [id |-> id, rx_time |-> upstream[id].rx_time,
     portnum |-> upstream[id].portnum, node_id |-> NodeIdOf(id)]

\* The ports message `id` may carry: the two forms of a relayed message (the
\* text port, no port) alternate with the id, the filtered form is open to all
PortsOf(id) ==
    IF id % 2 = 1
    THEN {TEXT_MESSAGE_APP, "POSITION_APP"}
    ELSE {NoPort, "POSITION_APP"}

\* What the mesh API may hold: each id with one receipt time and one port
UpstreamTables ==
    {t \in [UpstreamIds -> [rx_time : Times, portnum : Ports]] :
        \A id \in UpstreamIds : t[id].portnum \in PortsOf(id)}

\* What a fetch may return: any sequence of upstream messages, in any order,
\* repetitions included
Batches == UNION {[1..n -> UpstreamIds] : n \in 0..MaxBatch}

\* Every upstream message exactly once, in any order
FullBatches ==
    {b \in [1..MaxUpstream -> UpstreamIds] :
        \A i, j \in 1..MaxUpstream : b[i] = b[j] => i = j}

\* the insertion of an unstable sort: m goes before the messages of its time
InsertByRxTime_BeforeEquals(sorted, m) ==
    LET k == Cardinality({i \in 1..Len(sorted) : sorted[i].rx_time < m.rx_time})
    IN  SubSeq(sorted, 1, k) \o <<m>> \o SubSeq(sorted, k + 1, Len(sorted))

\* msgs.sort_by_key(|m| m.rx_time): a stable sort
InsertByRxTime(sorted, m) ==
    LET k == Cardinality({i \in 1..Len(sorted) : sorted[i].rx_time <= m.rx_time})
    IN  SubSeq(sorted, 1, k) \o <<m>> \o SubSeq(sorted, k + 1, Len(sorted))

RECURSIVE SortByRxTime(_)
SortByRxTime(s) ==
    IF s = <<>>
    THEN <<>>
    ELSE InsertByRxTime(SortByRxTime(SubSeq(s, 1, Len(s) - 1)), s[Len(s)])

\* The environment: in LiveSpec (fair) at most MaxFaults calls fail
AllowedResponses ==
    IF fair /\ faults >= MaxFaults THEN {"success"} ELSE Responses
AllowedWriteResults ==
    IF fair /\ faults >= MaxFaults THEN {"written"} ELSE WriteResults
CountFault(r) ==
    IF fair /\ r \notin {"success", "written"} THEN faults + 1 ELSE faults

\* ---------------------------------------------------------------- planner

\* the limit of the small window build_fetch_params asks for
SmallWindow == 10

\* FetchParams
FetchParams(limit, since) == [limit |-> limit, since |-> since]

\* no FetchParams at hand (build_fetch_params never returns a limit of 0)
NoParams == FetchParams(0, 0)

\* build_fetch_params asking for `since` whenever last_rx_time is set
build_fetch_params_SinceWithoutId(s) ==
    IF s.last_rx_time # None
    THEN FetchParams(None, s.last_rx_time)
    ELSE IF s.last_message_id = None
         THEN FetchParams(None, None)
         ELSE FetchParams(SmallWindow, None)

\* build_fetch_params
build_fetch_params(s) ==
    IF s.last_message_id = None
    THEN FetchParams(None, None)
    ELSE IF s.last_rx_time # None
         THEN FetchParams(None, s.last_rx_time)
         ELSE FetchParams(SmallWindow, None)

\* -------------------------------------------------------- forwarding loop

NoSnapshot == [state |-> DefaultState, disk |-> MissingFile]

\* the port test of poll_once with an absent portnum taken for another port
IsText_RequiresPort(msg) == msg.portnum = TEXT_MESSAGE_APP

IsText(msg) == msg.portnum = NoPort \/ msg.portnum = TEXT_MESSAGE_APP

\* sync after a call of persist_state whose fs::write ended with w
SyncAfter(w) ==
    IF w = "written"
    THEN IF sync = "behind" THEN "caught_up" ELSE "synced"
    ELSE "behind"

\* sync once the loop has moved on from the write that caught up
Settled == IF sync = "caught_up" THEN "synced" ELSE sync

\* FetchMessages starting over from the empty checkpoint when the fetch fails
FetchMessages_ResetsOnFailure(batches) ==
    /\ pc = "fetch"
    /\ \E r \in AllowedResponses :
        /\ faults' = CountFault(r)
        /\ IF fetch_messages_ok(r)
           THEN \E b \in batches :
                   LET returned == [i \in 1..Len(b) |-> UpstreamMsg(b[i])]
                   IN  /\ fetched' = returned
                       /\ msgs' = SortByRxTime(returned)
                       /\ pc' = "examine"
                       /\ outcome' = "fetched"
                       /\ params' = NoParams
                       /\ state' = state
           ELSE /\ fetched' = <<>>
                /\ msgs' = <<>>
                /\ pc' = "sleep"
                /\ outcome' = "fetch_failed"
                /\ params' = build_fetch_params(state)
                /\ state' = DefaultState
    /\ failed' = {}
    /\ writes' = 0
    /\ UNCHANGED <<disk, nodes_cache, upstream, fair, sent, before, sync>>
    /\ UNCHANGED registered
    /\ UNCHANGED ckptVars
    /\ UNCHANGED otherVars

\* poll_once: build_fetch_params, fetch_messages, sort
FetchMessages(batches) ==
    /\ pc = "fetch"
    /\ \E r \in AllowedResponses :
        /\ faults' = CountFault(r)
        /\ IF fetch_messages_ok(r)
           THEN \E b \in batches :
                   LET returned == [i \in 1..Len(b) |-> UpstreamMsg(b[i])]
                   IN  /\ fetched' = returned
                       /\ msgs' = SortByRxTime(returned)
                       /\ pc' = "examine"
                       /\ outcome' = "fetched"
                       /\ params' = NoParams
           ELSE /\ fetched' = <<>>
                /\ msgs' = <<>>
                /\ pc' = "sleep"
                /\ outcome' = "fetch_failed"
                /\ params' = build_fetch_params(state)
    /\ failed' = {}
    /\ writes' = 0
    /\ UNCHANGED <<state, disk, nodes_cache, upstream, fair, sent, before, sync>>
    /\ UNCHANGED registered
    /\ UNCHANGED ckptVars
    /\ UNCHANGED otherVars

\* poll_once: the for loop is over
EndOfBatch ==
    /\ pc = "examine"
    /\ msgs = <<>>
    /\ pc' = "sleep"
    /\ sync' = Settled
    /\ UNCHANGED <<state, disk, msgs, nodes_cache, upstream, fair, faults,
                   sent, failed, outcome, before, writes, params, fetched>>
    /\ registered' = "none"
    /\ UNCHANGED ckptVars
    /\ UNCHANGED otherVars

\* RejectMessage recording the message it skips
RejectMessage_Records ==
    /\ pc = "examine"
    /\ msgs # <<>>
    /\ ~should_forward(state, Head(msgs))
    /\ state' = update_with(state, Head(msgs))
    /\ msgs' = Tail(msgs)
    /\ outcome' = "rejected"
    /\ writes' = 0
    /\ fetched' = <<>>
    /\ sync' = Settled
    /\ UNCHANGED <<disk, pc, nodes_cache, upstream, fair, faults,
                   sent, failed, before, params>>
    /\ registered' = "none"
    /\ UNCHANGED ckptVars
    /\ UNCHANGED otherVars

\* poll_once: `if !state.should_forward(msg) { continue; }`
RejectMessage ==
    /\ pc = "examine"
    /\ msgs # <<>>
    /\ ~should_forward(state, Head(msgs))
    /\ msgs' = Tail(msgs)
    /\ outcome' = "rejected"
    /\ writes' = 0
    /\ fetched' = <<>>
    /\ sync' = Settled
    /\ UNCHANGED <<state, disk, pc, nodes_cache, upstream, fair, faults,
                   sent, failed, before, params>>
    /\ registered' = "none"
    /\ UNCHANGED ckptVars
    /\ UNCHANGED otherVars

\* PortFilter going on to the next message without persist_state
PortFilter_NoPersist ==
    /\ pc = "examine"
    /\ msgs # <<>>
    /\ should_forward(state, Head(msgs))
    /\ ~IsText(Head(msgs))
    /\ state' = update_with(state, Head(msgs))
    /\ msgs' = Tail(msgs)
    /\ outcome' = "filtered"
    /\ writes' = 0
    /\ fetched' = <<>>
    /\ sync' = Settled
    /\ UNCHANGED <<disk, pc, nodes_cache, upstream, fair, faults,
                   sent, failed, before, params>>
    /\ registered' = "none"
    /\ UNCHANGED ckptVars
    /\ UNCHANGED otherVars

\* poll_once: an admitted message of another port is recorded, not relayed
PortFilter ==
    /\ pc = "examine"
    /\ msgs # <<>>
    /\ should_forward(state, Head(msgs))
    /\ ~IsText(Head(msgs))
    /\ state' = update_with(state, Head(msgs))
    /\ pc' = "persist_filtered"
    /\ outcome' = "pending"
    /\ writes' = 0
    /\ fetched' = <<>>
    /\ sync' = Settled
    /\ UNCHANGED <<disk, msgs, nodes_cache, upstream, fair, faults,
                   sent, failed, before, params>>
    /\ registered' = "none"
    /\ UNCHANGED ckptVars
    /\ UNCHANGED otherVars

\* poll_once: persist_state after the port filter, then `continue`
PersistFiltered ==
    /\ pc = "persist_filtered"
    /\ \E w \in AllowedWriteResults :
        /\ disk' = persist_state(state, disk, w)
        /\ faults' = CountFault(w)
        /\ sync' = SyncAfter(w)
    /\ writes' = writes + 1
    /\ msgs' = Tail(msgs)
    /\ pc' = "examine"
    /\ outcome' = "filtered"
    /\ UNCHANGED <<state, nodes_cache, upstream, fair, sent, failed, before,
                   params, fetched>>
    /\ UNCHANGED registered
    /\ UNCHANGED ckptVars
    /\ UNCHANGED otherVars

\* BeginRelay with the checkpoint advanced and written before the relay
BeginRelay_PersistsFirst ==
    /\ pc = "examine"
    /\ msgs # <<>>
    /\ should_forward(state, Head(msgs))
    /\ IsText(Head(msgs))
    /\ pc' = "get_node"
    /\ before' = [state |-> state, disk |-> disk]
    /\ outcome' = "pending"
    /\ writes' = 1
    /\ state' = update_with(state, Head(msgs))
    /\ disk' = save(update_with(state, Head(msgs)))
    /\ fetched' = <<>>
    /\ sync' = Settled
    /\ UNCHANGED <<msgs, nodes_cache, upstream, fair, faults, sent, failed,
                   params>>
    /\ registered' = "none"
    /\ UNCHANGED ckptVars
    /\ UNCHANGED otherVars

\* poll_once: an admitted text message enters handle_message
BeginRelay ==
    /\ pc = "examine"
    /\ msgs # <<>>
    /\ should_forward(state, Head(msgs))
    /\ IsText(Head(msgs))
    /\ pc' = "get_node"
    /\ before' = [state |-> state, disk |-> disk]
    /\ outcome' = "pending"
    /\ writes' = 0
    /\ fetched' = <<>>
    /\ sync' = Settled
    /\ UNCHANGED <<state, disk, msgs, nodes_cache, upstream, fair, faults,
                   sent, failed, params>>
    /\ registered' = "none"
    /\ UNCHANGED ckptVars
    /\ UNCHANGED otherVars

\* the error of handle_message returned from poll_once and from main
RelayFailed_EndsLoop ==
    /\ pc' = "exited"
    /\ msgs' = Tail(msgs)
    /\ failed' = failed \cup {Head(msgs).id}
    /\ outcome' = "failed"
    /\ before' = NoSnapshot
    /\ UNCHANGED <<state, disk, upstream, fair, sent, writes>>
    /\ UNCHANGED histVars

\* handle_message returned Err: poll_once logs it and continues with the
\* next message (what the step leaves alone is stated by its caller)
RelayFailed ==
    /\ pc' = "examine"
    /\ msgs' = Tail(msgs)
    /\ failed' = failed \cup {Head(msgs).id}
    /\ outcome' = "failed"
    /\ before' = NoSnapshot
    /\ UNCHANGED <<state, disk, upstream, fair, sent, writes>>
    /\ UNCHANGED histVars

\* handle_message: potato.get_node(&msg.node_id)
GetNode ==
    /\ pc = "get_node"
    /\ LET key == NodeKey(Head(msgs).node_id)
       IN  IF key \in DOMAIN nodes_cache
           THEN /\ pc' = "register"
                /\ UNCHANGED <<state, disk, msgs, nodes_cache, upstream,
                               fair, faults, sent, failed, outcome, before, writes>>
                /\ UNCHANGED histVars
           ELSE \E r \in AllowedResponses :
                   /\ faults' = CountFault(r)
                   /\ IF get_node_ok(r)
                      THEN /\ nodes_cache' =
                                  CachePut(nodes_cache, key, Node(key, LoopRev))
                           /\ pc' = "register"
                           /\ UNCHANGED <<state, disk, msgs, upstream, fair,
                                          sent, failed, outcome, before, writes>>
                           /\ UNCHANGED histVars
                      ELSE /\ RelayFailed
                           /\ UNCHANGED nodes_cache
    /\ UNCHANGED registered
    /\ UNCHANGED ckptVars
    /\ UNCHANGED otherVars

\* One call of the chat client inside handle_message, followed by `?`
ChatCall(at, okResponses, next) ==
    /\ pc = at
    /\ \E r \in AllowedResponses :
        /\ faults' = CountFault(r)
        /\ registered' = IF at = "register" THEN r ELSE registered
        /\ IF r \in okResponses
           THEN /\ pc' = next
                /\ UNCHANGED <<state, disk, msgs, upstream, fair,
                               sent, failed, outcome, before, writes>>
                /\ UNCHANGED histVars
           ELSE RelayFailed
    /\ UNCHANGED nodes_cache
    /\ UNCHANGED ckptVars
    /\ UNCHANGED otherVars

\* handle_message: matrix.ensure_user_registered(&localpart)
EnsureUserRegistered ==
    ChatCall("register", {r \in Responses : ensure_user_registered_ok(r)}, "join")

\* handle_message: matrix.ensure_user_joined_room(&user_id)
EnsureUserJoinedRoom ==
    ChatCall("join", {r \in Responses : ensure_user_joined_room_ok(r)},
             "display_name")

\* handle_message: matrix.set_display_name(&user_id, &display_name)
SetDisplayName ==
    ChatCall("display_name", {r \in Responses : set_display_name_ok(r)}, "send")

\* SendMessage with state.update_with(msg) ahead of the send
SendMessage_UpdatesFirst ==
    /\ pc = "send"
    /\ \E r \in AllowedResponses :
        /\ faults' = CountFault(r)
        /\ state' = update_with(state, Head(msgs))
        /\ IF send_formatted_message_as_ok(r)
           THEN /\ sent' = sent \cup {Head(msgs).id}
                /\ pc' = "persist"
                /\ UNCHANGED <<disk, msgs, upstream, fair,
                               failed, outcome, before, writes>>
                /\ UNCHANGED histVars
           ELSE /\ pc' = "examine"
                /\ msgs' = Tail(msgs)
                /\ failed' = failed \cup {Head(msgs).id}
                /\ outcome' = "failed"
                /\ before' = NoSnapshot
                /\ UNCHANGED <<disk, upstream, fair, sent, writes>>
                /\ UNCHANGED histVars
    /\ UNCHANGED nodes_cache
    /\ UNCHANGED registered
    /\ UNCHANGED ckptVars
    /\ UNCHANGED otherVars

\* handle_message: send_formatted_message_as, then state.update_with(msg)
SendMessage ==
    /\ pc = "send"
    /\ \E r \in AllowedResponses :
        /\ faults' = CountFault(r)
        /\ IF send_formatted_message_as_ok(r)
           THEN /\ sent' = sent \cup {Head(msgs).id}
                /\ state' = update_with(state, Head(msgs))
                /\ pc' = "persist"
                /\ UNCHANGED <<disk, msgs, upstream, fair,
                               failed, outcome, before, writes>>
                /\ UNCHANGED histVars
           ELSE RelayFailed
    /\ UNCHANGED nodes_cache
    /\ UNCHANGED registered
    /\ UNCHANGED ckptVars
    /\ UNCHANGED otherVars

\* PersistRelayed going back to the checkpoint of the file when the write
\* fails
PersistRelayed_RollsBackOnFailure ==
    /\ pc = "persist"
    /\ \E w \in AllowedWriteResults :
        /\ disk' = persist_state(state, disk, w)
        /\ faults' = CountFault(w)
        /\ sync' = SyncAfter(w)
        /\ state' = IF w = "written" THEN state ELSE load(disk)
    /\ writes' = writes + 1
    /\ msgs' = Tail(msgs)
    /\ pc' = "examine"
    /\ outcome' = "relayed"
    /\ before' = NoSnapshot
    /\ UNCHANGED <<nodes_cache, upstream, fair, sent, failed, params, fetched>>
    /\ registered' = "none"
    /\ UNCHANGED ckptVars
    /\ UNCHANGED otherVars

\* poll_once: persist_state after handle_message returned Ok
PersistRelayed ==
    /\ pc = "persist"
    /\ \E w \in AllowedWriteResults :
        /\ disk' = persist_state(state, disk, w)
        /\ faults' = CountFault(w)
        /\ sync' = SyncAfter(w)
    /\ writes' = writes + 1
    /\ msgs' = Tail(msgs)
    /\ pc' = "examine"
    /\ outcome' = "relayed"
    /\ before' = NoSnapshot
    /\ UNCHANGED <<state, nodes_cache, upstream, fair, sent, failed,
                   params, fetched>>
    /\ registered' = "none"
    /\ UNCHANGED ckptVars
    /\ UNCHANGED otherVars

\* main: sleep(poll_interval), then the next poll_once
Sleep ==
    /\ pc = "sleep"
    /\ pc' = "fetch"
    /\ UNCHANGED <<state, disk, msgs, nodes_cache, upstream, fair, faults,
                   sent, failed, outcome, before, writes>>
    /\ UNCHANGED histVars
    /\ UNCHANGED registered
    /\ UNCHANGED ckptVars
    /\ UNCHANGED otherVars

\* The process stops at any point and is started again: main builds new
\* clients (an empty node cache) and loads the state file
Restart ==
    /\ state' = load(disk)
    /\ pc' = "fetch"
    /\ msgs' = <<>>
    /\ nodes_cache' = EmptyCache
    /\ failed' = {}
    /\ outcome' = "none"
    /\ before' = NoSnapshot
    /\ writes' = 0
    /\ params' = NoParams
    /\ fetched' = <<>>
    /\ sync' = "synced"
    /\ UNCHANGED <<disk, upstream, fair, faults, sent>>
    /\ registered' = "none"
    /\ UNCHANGED ckptVars
    /\ UNCHANGED otherVars

\* ------------------------------------------------------- checkpoint calls

NoMsg == [id |-> None, rx_time |-> None]
NoOp == [op |-> "none", msg |-> NoMsg, result |-> FALSE]

\* The messages of the checkpoint specifications
Messages == [id : Ids, rx_time : Times]

RECURSIVE SeqsWithoutRepetition(_)
SeqsWithoutRepetition(S) ==
    {<<>>} \cup UNION {{<<x>> \o t : t \in SeqsWithoutRepetition(S \ {x})} : x \in S}

\* The checkpoints a state file can hold: any id and time, and ids recorded
\* at last_rx_time only when there is one
AllStates ==
    {s \in [last_message_id : Ids \cup {None},
            last_rx_time : Times \cup {None},
            last_rx_time_ids : SeqsWithoutRepetition(Ids),
            last_checked_at : {None}] :
        s.last_rx_time = None => s.last_rx_time_ids = <<>>}

\* a call of state.update_with(msg)
UpdateWith ==
    /\ pc = "idle"
    /\ \E m \in Messages :
        /\ state' = update_with(state, m)
        /\ lastOp' = [op |-> "update_with", msg |-> m, result |-> TRUE]
        /\ probeRecorded' = (probeRecorded \/ m = probe)
    /\ UNCHANGED probe
    /\ UNCHANGED <<disk, pc, msgs, nodes_cache, upstream, fair, faults,
                   sent, failed, outcome, before, writes>>
    /\ UNCHANGED histVars
    /\ UNCHANGED registered
    /\ UNCHANGED otherVars

\* a call of state.should_forward(msg)
ShouldForward ==
    /\ pc = "idle"
    /\ \E m \in Messages :
        lastOp' = [op |-> "should_forward", msg |-> m,
                   result |-> should_forward(state, m)]
    /\ UNCHANGED <<probe, probeRecorded>>
    /\ UNCHANGED loopVars
    /\ UNCHANGED otherVars

\* a call of build_fetch_params(&state)
BuildFetchParams ==
    /\ pc = "idle"
    /\ params' = build_fetch_params(state)
    /\ lastOp' = [op |-> "build_fetch_params", msg |-> NoMsg, result |-> TRUE]
    /\ UNCHANGED <<state, disk, pc, msgs, nodes_cache, upstream, fair, faults,
                   sent, failed, outcome, before, writes, fetched, sync>>
    /\ UNCHANGED <<probe, probeRecorded>>
    /\ UNCHANGED registered
    /\ UNCHANGED otherVars

\* ------------------------------------------------- the Synapse listener
\* matrix_server.rs. Strings are sequences of bytes.

\* The longest token drawn
MaxTokenLen == 1

\* u8: a byte takes ByteModulus values
ByteModulus == 256

\* "Bearer ", "bearer " and "Basic " in ASCII
BearerPrefix == <<66, 101, 97, 114, 101, 114, 32>>
bearerPrefix == <<98, 101, 97, 114, 101, 114, 32>>
BasicPrefix == <<66, 97, 115, 105, 99, 32>>

\* the bytes tokens are made of ("A", "B"), a byte that is not ASCII, and
\* the ASCII white space str::trim removes
TokenBytes == {65, 66}
OpaqueByte == 200
WhiteSpace == {9, 10, 11, 12, 13, 32}

\* Option<String>
NoString == [some |-> FALSE, value |-> <<>>]
SomeString(s) == [some |-> TRUE, value |-> s]

RECURSIVE BitXor(_, _)
\* x ^ y
BitXor(x, y) ==
    IF x = 0 /\ y = 0
    THEN 0
    ELSE (((x % 2) + (y % 2)) % 2) + 2 * BitXor(x \div 2, y \div 2)

RECURSIVE BitOr(_, _)
\* x | y
BitOr(x, y) ==
    IF x = 0 /\ y = 0
    THEN 0
    ELSE (IF x % 2 = 1 \/ y % 2 = 1 THEN 1 ELSE 0)
             + 2 * BitOr(x \div 2, y \div 2)

\* bytes.get(idx).unwrap_or(&0), idx counting from 0
ByteAt(bytes, idx) == IF idx < Len(bytes) THEN bytes[idx + 1] ELSE 0

RECURSIVE DiffOver(_, _, _, _)
\* what the loop of constant_time_eq or-s into diff for idx in lo..hi-1:
\* left ^ right of every idx (or-ing is associative, the range is halved)
DiffOver(a, b, lo, hi) ==
    IF hi <= lo
    THEN 0
    ELSE IF hi = lo + 1
    THEN BitXor(ByteAt(a, lo), ByteAt(b, lo))
    ELSE LET mid == (lo + hi) \div 2
         IN  BitOr(DiffOver(a, b, lo, mid), DiffOver(a, b, mid, hi))

\* constant_time_eq(a, b): the xor of the lengths, cut to a u8, or-ed with
\* the xor of every pair of bytes, the shorter string padded with 0
constant_time_eq(a, b) ==
    LET max_len == IF Len(a) >= Len(b) THEN Len(a) ELSE Len(b)
        diff == BitXor(Len(a), Len(b)) % ByteModulus
    IN  BitOr(diff, DiffOver(a, b, 0, max_len)) = 0

\* str::strip_prefix
strip_prefix(s, prefix) ==
    IF Len(s) >= Len(prefix) /\ SubSeq(s, 1, Len(prefix)) = prefix
    THEN SomeString(SubSeq(s, Len(prefix) + 1, Len(s)))
    ELSE NoString

RECURSIVE trim_start(_)
trim_start(s) ==
    IF s # <<>> /\ Head(s) \in WhiteSpace THEN trim_start(Tail(s)) ELSE s

RECURSIVE trim_end(_)
trim_end(s) ==
    IF s # <<>> /\ s[Len(s)] \in WhiteSpace
    THEN trim_end(SubSeq(s, 1, Len(s) - 1))
    ELSE s

\* str::trim
trim(s) == trim_end(trim_start(s))

\* HeaderValue::to_str: the value as text, when every byte of it is visible
\* ASCII or a tab
to_str(value) ==
    IF \A i \in 1..Len(value) :
           (value[i] >= 32 /\ value[i] < 127) \/ value[i] = 9
    THEN SomeString(value)
    ELSE NoString

\* The token a request's headers yield and the header it is from
NoToken == [source |-> "none", token |-> NoString]
Token(source, s) == [source |-> source, token |-> SomeString(s)]

\* extract_access_token consulting x-access-token before Authorization
extract_access_token_PrefersAlternate(headers) ==
    LET auth == IF headers.authorization.some
                THEN to_str(headers.authorization.value) ELSE NoString
        alt  == IF headers.x_access_token.some
                THEN to_str(headers.x_access_token.value) ELSE NoString
    IN  IF alt.some
        THEN Token("x_access_token", trim(alt.value))
        ELSE IF auth.some /\ strip_prefix(auth.value, BearerPrefix).some
        THEN Token("authorization",
                   trim(strip_prefix(auth.value, BearerPrefix).value))
        ELSE IF auth.some /\ strip_prefix(auth.value, bearerPrefix).some
        THEN Token("authorization",
                   trim(strip_prefix(auth.value, bearerPrefix).value))
        ELSE NoToken

\* extract_access_token(headers)
extract_access_token(headers) ==
    LET auth == IF headers.authorization.some
                THEN to_str(headers.authorization.value) ELSE NoString
        alt  == IF headers.x_access_token.some
                THEN to_str(headers.x_access_token.value) ELSE NoString
    IN  IF auth.some /\ strip_prefix(auth.value, BearerPrefix).some
        THEN Token("authorization",
                   trim(strip_prefix(auth.value, BearerPrefix).value))
        ELSE IF auth.some /\ strip_prefix(auth.value, bearerPrefix).some
        THEN Token("authorization",
                   trim(strip_prefix(auth.value, bearerPrefix).value))
        ELSE IF alt.some
        THEN Token("x_access_token", trim(alt.value))
        ELSE NoToken

\* StatusCode
OK == 200
UNAUTHORIZED == 401
BAD_REQUEST == 400
UNSUPPORTED_MEDIA_TYPE == 415

\* A response: Json(json!({})) of the handler, or the text of a rejection
EmptyObject == "{}"
RejectionText == "rejection"
Response(status, body) == [status |-> status, body |-> body]

\* What came of a request: the token that was checked, the result of the
\* check, the response, and what info! logged
NoLog == [some |-> FALSE, txn_id |-> "", payload |-> ""]
Logged(txn_id, payload) ==
    [some |-> TRUE, txn_id |-> txn_id, payload |-> payload]
Handling(reached, checked, token_matches, response, logged) ==
    [reached |-> reached, checked |-> checked,
     token_matches |-> token_matches, response |-> response,
     logged |-> logged]

\* A request rejected by an extractor of handle_transaction's arguments,
\* which answers in place of the handler
Rejected(status) ==
    Handling(FALSE, NoToken, FALSE, Response(status, RejectionText), NoLog)

\* the query string of a request: none, access_token given once, or
\* access_token given twice, which Query<AuthQuery> refuses
NoQuery == [kind |-> "none", access_token |-> NoString]
QueryToken(s) == [kind |-> "token", access_token |-> SomeString(s)]
DuplicateQuery == [kind |-> "duplicate", access_token |-> NoString]

\* handle_transaction answering a payload it was given with the payload
handle_transaction_EchoesPayload(request, hs_token) ==
    IF request.query.kind = "duplicate"
    THEN Rejected(BAD_REQUEST)
    ELSE IF request.body = "no_content_type"
    THEN Rejected(UNSUPPORTED_MEDIA_TYPE)
    ELSE IF request.body = "not_json"
    THEN Rejected(BAD_REQUEST)
    ELSE
        LET header_token == extract_access_token(request.headers)
            checked ==
                IF header_token.token.some
                THEN header_token
                ELSE [source |-> IF request.query.access_token.some
                                 THEN "query" ELSE "none",
                      token |-> request.query.access_token]
            token_matches ==
                /\ checked.token.some
                /\ constant_time_eq(checked.token.value, hs_token)
        IN  IF ~token_matches
            THEN Handling(TRUE, checked, FALSE,
                          Response(UNAUTHORIZED, EmptyObject), NoLog)
            ELSE Handling(TRUE, checked, TRUE,
                          Response(OK, request.body),
                          Logged(request.txn_id, request.body))

\* handle_transaction with its extractors: Query, then Json, reject the
\* request before the handler's body runs
handle_transaction(request, hs_token) ==
    IF request.query.kind = "duplicate"
    THEN Rejected(BAD_REQUEST)
    ELSE IF request.body = "no_content_type"
    THEN Rejected(UNSUPPORTED_MEDIA_TYPE)
    ELSE IF request.body = "not_json"
    THEN Rejected(BAD_REQUEST)
    ELSE
        LET header_token == extract_access_token(request.headers)
            checked ==
                IF header_token.token.some
                THEN header_token
                ELSE [source |-> IF request.query.access_token.some
                                 THEN "query" ELSE "none",
                      token |-> request.query.access_token]
            token_matches ==
                /\ checked.token.some
                /\ constant_time_eq(checked.token.value, hs_token)
        IN  IF ~token_matches
            THEN Handling(TRUE, checked, FALSE,
                          Response(UNAUTHORIZED, EmptyObject), NoLog)
            ELSE Handling(TRUE, checked, TRUE,
                          Response(OK, EmptyObject),
                          Logged(request.txn_id, request.body))

\* Inputs. Tokens of up to MaxTokenLen bytes; a token followed by NUL
\* bytes, one of them or ByteModulus of them
ShortTokens == UNION {[1..n -> TokenBytes] : n \in 0..MaxTokenLen}
Secrets == ShortTokens \ {<<>>}
Nuls(n) == [i \in 1..n |-> 0]
Padded == {t \o Nuls(n) : t \in ShortTokens, n \in {1, ByteModulus}}

AuthorizationValues ==
    {NoString}
        \cup {SomeString(BearerPrefix \o t) : t \in ShortTokens}
        \cup {SomeString(bearerPrefix \o t) : t \in ShortTokens}
        \cup {SomeString(BearerPrefix \o <<32>> \o t \o <<9>>) :
                  t \in ShortTokens}
        \cup {SomeString(BasicPrefix \o t) : t \in ShortTokens}
        \cup {SomeString(<<OpaqueByte>>),
              SomeString(BearerPrefix \o <<OpaqueByte>>)}

AlternateValues ==
    {NoString}
        \cup {SomeString(t) : t \in ShortTokens}
        \cup {SomeString(<<32>> \o t \o <<32>>) : t \in ShortTokens}
        \cup {SomeString(<<OpaqueByte>>)}

Queries ==
    {NoQuery, DuplicateQuery} \cup {QueryToken(t) : t \in ShortTokens \cup Padded}

Bodies == {"json", "not_json", "no_content_type"}

Requests ==
    [txn_id : {"txn"},
     headers : [authorization : AuthorizationValues,
                x_access_token : AlternateValues],
     query : Queries,
     body : Bodies]

\* The requests that arrive while the forwarding loop is watched
FewRequests ==
    {[txn_id |-> "txn",
      headers |-> [authorization |-> a, x_access_token |-> NoString],
      query |-> NoQuery,
      body |-> "json"] :
        a \in {NoString, SomeString(BearerPrefix \o <<65>>)}}

\* The listener: its task and the SynapseState of its router
NoListener == [task |-> "off", hs_token |-> <<>>]
Listener(task, hs_token) == [task |-> task, hs_token |-> hs_token]

NoRequest ==
    [txn_id |-> "", headers |-> [authorization |-> NoString,
                                 x_access_token |-> NoString],
     query |-> NoQuery, body |-> ""]
NoExchange ==
    [request |-> NoRequest,
     handling |-> Handling(FALSE, NoToken, FALSE, Response(0, ""), NoLog),
     answered |-> FALSE]

\* run_synapse_listener binds its address: it serves, or the bind fails,
\* the task returns the error and the closure of spawn_synapse_listener
\* logs it
BindListener ==
    /\ listener.task = "starting"
    /\ \E ok \in BOOLEAN :
        listener' = Listener(IF ok THEN "serving" ELSE "failed",
                             listener.hs_token)
    /\ UNCHANGED <<exchange, calls, applied, txn>>
    /\ UNCHANGED loopVars
    /\ UNCHANGED ckptVars

\* the listener's error returned from main: the process exits
ListenerFails_Propagates ==
    /\ listener.task = "serving"
    /\ listener' = Listener("failed", listener.hs_token)
    /\ exchange' = NoExchange
    /\ pc' = "exited"
    /\ UNCHANGED <<calls, applied, txn>>
    /\ UNCHANGED <<state, disk, msgs, nodes_cache, upstream, fair, faults,
                   sent, failed, outcome, before, writes, registered>>
    /\ UNCHANGED histVars
    /\ UNCHANGED ckptVars

\* axum::serve returns an error: the task ends the same way
ListenerFails ==
    /\ listener.task = "serving"
    /\ listener' = Listener("failed", listener.hs_token)
    /\ exchange' = NoExchange
    /\ UNCHANGED <<calls, applied, txn>>
    /\ UNCHANGED loopVars
    /\ UNCHANGED ckptVars

\* a handler that takes an accepted transaction for progress and resets the
\* checkpoint
HandleTransaction_ResetsCheckpoint(requests) ==
    /\ listener.task = "serving"
    /\ ~exchange.answered
    /\ \E request \in requests :
        /\ exchange' = [request |-> request,
                        handling |-> handle_transaction(request,
                                                        listener.hs_token),
                        answered |-> TRUE]
        /\ state' = IF exchange'.handling.token_matches
                    THEN DefaultState ELSE state
    /\ UNCHANGED <<listener, calls, applied, txn>>
    /\ UNCHANGED <<disk, pc, msgs, nodes_cache, upstream, fair, faults,
                   sent, failed, outcome, before, writes, registered>>
    /\ UNCHANGED histVars
    /\ UNCHANGED ckptVars

\* A PUT of /_matrix/appservice/v1/transactions/:txn_id is answered
HandleTransaction(requests) ==
    /\ listener.task = "serving"
    /\ ~exchange.answered
    /\ \E request \in requests :
        exchange' = [request |-> request,
                     handling |-> handle_transaction(request,
                                                     listener.hs_token),
                     answered |-> TRUE]
    /\ UNCHANGED <<listener, calls, applied, txn>>
    /\ UNCHANGED loopVars
    /\ UNCHANGED ckptVars

\* the response is on its way and the listener waits for the next request
AwaitRequest ==
    /\ listener.task = "serving"
    /\ exchange.answered
    /\ exchange' = NoExchange
    /\ UNCHANGED <<listener, calls, applied, txn>>
    /\ UNCHANGED loopVars
    /\ UNCHANGED ckptVars

\* ------------------------------------------- concurrent calls of get_node
\* potatomesh.rs: PotatoClient is Clone and shares nodes_cache behind an
\* Arc<RwLock>, so several tasks may call get_node at once.

\* The number of tasks calling get_node
MaxCallers == 2
Callers == 1..MaxCallers

NodeIdSet == {NodeIds[i] : i \in 1..Len(NodeIds)}

\* Result<PotatoNode>
NoResult == [ok |-> FALSE, node |-> NoNode]
OkNode(node) == [ok |-> TRUE, node |-> node]

\* A call of get_node: where it is, its argument, the node its own request
\* fetched and what it returned
Call(at, node_id, node, result) ==
    [pc |-> at, node_id |-> node_id, fetched |-> node, result |-> result]
IdleCall == Call("idle", <<>>, NoNode, NoResult)
NoCalls == [c \in Callers |-> IdleCall]

\* get_node(node_id) is called
CallGetNode(c) ==
    /\ calls[c].pc = "idle"
    /\ \E node_id \in NodeIdSet :
        calls' = [calls EXCEPT ![c] = Call("lookup", node_id, NoNode, NoResult)]
    /\ UNCHANGED <<nodes_cache, listener, exchange, applied, txn>>
    /\ UNCHANGED <<state, disk, pc, msgs, upstream, fair, faults, sent,
                   failed, outcome, before, writes, registered>>
    /\ UNCHANGED histVars
    /\ UNCHANGED ckptVars

\* the block under the read lock: a cached node is returned at once
CacheLookup(c) ==
    /\ calls[c].pc = "lookup"
    /\ LET key == NodeKey(calls[c].node_id)
       IN  calls' = [calls EXCEPT ![c] =
               IF key \in DOMAIN nodes_cache
               THEN Call("done", calls[c].node_id, NoNode,
                         OkNode(nodes_cache[key]))
               ELSE Call("request", calls[c].node_id, NoNode, NoResult)]
    /\ UNCHANGED <<nodes_cache, listener, exchange, applied, txn>>
    /\ UNCHANGED <<state, disk, pc, msgs, upstream, fair, faults, sent,
                   failed, outcome, before, writes, registered>>
    /\ UNCHANGED histVars
    /\ UNCHANGED ckptVars

\* the request to /nodes/{hex}, with no lock held: a node arrives, or the
\* call returns the error
NodeRequest(c) ==
    /\ calls[c].pc = "request"
    /\ \E r \in Responses, rev \in NodeRevs :
        calls' = [calls EXCEPT ![c] =
            IF get_node_ok(r)
            THEN Call("insert", calls[c].node_id,
                      Node(NodeKey(calls[c].node_id), rev), NoResult)
            ELSE Call("done", calls[c].node_id, NoNode, NoResult)]
    /\ UNCHANGED <<nodes_cache, listener, exchange, applied, txn>>
    /\ UNCHANGED <<state, disk, pc, msgs, upstream, fair, faults, sent,
                   failed, outcome, before, writes, registered>>
    /\ UNCHANGED histVars
    /\ UNCHANGED ckptVars

\* get_node keeping the read lock of its lookup until it has inserted: the
\* write lock waits for every other call that has looked up and not ended
CacheInsert_KeepsReadLock(c) ==
    /\ calls[c].pc = "insert"
    /\ \A other \in Callers \ {c} :
           calls[other].pc \notin {"request", "insert"}
    /\ nodes_cache' = CachePut(nodes_cache, NodeKey(calls[c].node_id),
                               calls[c].fetched)
    /\ calls' = [calls EXCEPT ![c] =
           Call("done", calls[c].node_id, calls[c].fetched,
                OkNode(calls[c].fetched))]
    /\ UNCHANGED <<listener, exchange, applied, txn>>
    /\ UNCHANGED <<state, disk, pc, msgs, upstream, fair, faults, sent,
                   failed, outcome, before, writes, registered>>
    /\ UNCHANGED histVars
    /\ UNCHANGED ckptVars

\* the block under the write lock: the fetched node is inserted under its
\* key, and returned
CacheInsert(c) ==
    /\ calls[c].pc = "insert"
    /\ nodes_cache' = CachePut(nodes_cache, NodeKey(calls[c].node_id),
                               calls[c].fetched)
    /\ calls' = [calls EXCEPT ![c] =
           Call("done", calls[c].node_id, calls[c].fetched,
                OkNode(calls[c].fetched))]
    /\ UNCHANGED <<listener, exchange, applied, txn>>
    /\ UNCHANGED <<state, disk, pc, msgs, upstream, fair, faults, sent,
                   failed, outcome, before, writes, registered>>
    /\ UNCHANGED histVars
    /\ UNCHANGED ckptVars

\* the caller has its result
ReturnNode(c) ==
    /\ calls[c].pc = "done"
    /\ calls' = [calls EXCEPT ![c] = IdleCall]
    /\ UNCHANGED <<nodes_cache, listener, exchange, applied, txn>>
    /\ UNCHANGED <<state, disk, pc, msgs, upstream, fair, faults, sent,
                   failed, outcome, before, writes, registered>>
    /\ UNCHANGED histVars
    /\ UNCHANGED ckptVars

\* ------------------------------------------- names, bodies and identities
\* main.rs: display_name_for_node, format_message_bodies, escape_html;
\* matrix.rs: localpart_from_node_id, user_id. Names and texts are sequences
\* of bytes, node ids sequences of characters as above.

\* The longest name, text and node id drawn
MaxNameLen == 2
MaxTextLen == 2
MaxNodeIdLen == 2

\* "A", "B" and the space
NameBytes == {65, 66, 32}
Names == UNION {[1..n -> NameBytes] : n \in 0..MaxNameLen}

\* the fields of PotatoNode that make the display name
PotatoNodes == [short_name : {NoString} \cup {SomeString(n) : n \in Names},
                long_name : Names]

\* display_name_for_node comparing the short name as it is with the long name
display_name_for_node_ComparesUntrimmed(node) ==
    LET short == IF node.short_name.some
                 THEN SomeString(trim(node.short_name.value))
                 ELSE NoString
        kept == IF short.some /\ short.value # <<>> THEN short ELSE NoString
    IN  IF kept.some /\ node.short_name.value # node.long_name
        THEN node.long_name \o <<32, 40>> \o kept.value \o <<41>>
        ELSE node.long_name

\* display_name_for_node(node): short_name.as_deref().map(str::trim)
\* .filter(|s| !s.is_empty()), then "{long} ({short})" or the long name
display_name_for_node(node) ==
    LET short == IF node.short_name.some
                 THEN SomeString(trim(node.short_name.value))
                 ELSE NoString
        kept == IF short.some /\ short.value # <<>> THEN short ELSE NoString
    IN  IF kept.some /\ kept.value # node.long_name
        THEN node.long_name \o <<32, 40>> \o kept.value \o <<41>>
        ELSE node.long_name

\* & < > " ' and "a"
TextBytes == {38, 60, 62, 34, 39, 97}
Texts == UNION {[1..n -> TextBytes] : n \in 0..MaxTextLen}

\* "&amp;", "&lt;", "&gt;", "&quot;", "&#39;"
AmpEntity == <<38, 97, 109, 112, 59>>
LtEntity == <<38, 108, 116, 59>>
GtEntity == <<38, 103, 116, 59>>
QuotEntity == <<38, 113, 117, 111, 116, 59>>
AposEntity == <<38, 35, 51, 57, 59>>

\* "<code>" and "</code> "
CodeOpen == <<60, 99, 111, 100, 101, 62>>
CodeClose == <<60, 47, 99, 111, 100, 101, 62, 32>>

RECURSIVE ReplaceAll(_, _, _)
\* str::replace: every ch of s replaced by the string `by`
ReplaceAll(s, ch, by) ==
    IF s = <<>>
    THEN <<>>
    ELSE (IF Head(s) = ch THEN by ELSE <<Head(s)>>)
             \o ReplaceAll(Tail(s), ch, by)

\* escape_html as a chain of replacements with & replaced last
escape_html_ReplacesInTurn(input) ==
    ReplaceAll(ReplaceAll(ReplaceAll(ReplaceAll(ReplaceAll(input,
        60, LtEntity), 62, GtEntity), 34, QuotEntity), 39, AposEntity),
        38, AmpEntity)

RECURSIVE escape_html(_)
\* escape_html(input): one pass over the characters
escape_html(input) ==
    IF input = <<>>
    THEN <<>>
    ELSE (CASE Head(input) = 38 -> AmpEntity
            [] Head(input) = 60 -> LtEntity
            [] Head(input) = 62 -> GtEntity
            [] Head(input) = 34 -> QuotEntity
            [] Head(input) = 39 -> AposEntity
            [] OTHER -> <<Head(input)>>)
             \o escape_html(Tail(input))

\* format_message_bodies(prefix, text): (body, formatted_body)
format_message_bodies(prefix, text) ==
    [body |-> <<96>> \o prefix \o <<96, 32>> \o text,
     formatted_body |->
         CodeOpen \o escape_html(prefix) \o CodeClose \o escape_html(text)]

\* "potato_", and the server name of the configuration
PotatoPrefix == <<"p", "o", "t", "a", "t", "o", "_">>
server_name == <<"s">>

\* node ids: any characters, the sigil at any place
NodeIdChars == {"!", "a", "b"}
AnyNodeIds == UNION {[1..n -> NodeIdChars] : n \in 0..MaxNodeIdLen}

\* localpart_from_node_id leaving the sigil in place
localpart_from_node_id_KeepsSigil(node_id) == PotatoPrefix \o node_id

\* MatrixAppserviceClient::localpart_from_node_id
localpart_from_node_id(node_id) ==
    PotatoPrefix \o trim_start_matches(node_id, "!")

\* MatrixAppserviceClient::user_id
user_id(localpart) == <<"@">> \o localpart \o <<":">> \o server_name

\* No function has been called
NoApplied == [fn |-> "none", input |-> <<>>, result |-> <<>>]

\* display_name_for_node(&node)
DisplayNameForNode ==
    /\ pc = "idle"
    /\ applied.fn = "none"
    /\ \E node \in PotatoNodes :
        applied' = [fn |-> "display_name_for_node", input |-> node,
                    result |-> display_name_for_node(node)]
    /\ UNCHANGED <<listener, exchange, calls, txn>>
    /\ UNCHANGED loopVars
    /\ UNCHANGED ckptVars

\* format_message_bodies(&prefix, &msg.text)
FormatMessageBodies ==
    /\ pc = "idle"
    /\ applied.fn = "none"
    /\ \E prefix \in Texts, text \in Texts :
        applied' = [fn |-> "format_message_bodies",
                    input |-> [prefix |-> prefix, text |-> text],
                    result |-> format_message_bodies(prefix, text)]
    /\ UNCHANGED <<listener, exchange, calls, txn>>
    /\ UNCHANGED loopVars
    /\ UNCHANGED ckptVars

\* handle_message deriving the puppet of msg.node_id: the localpart, the
\* user id, and the key get_node looks the node up under
PuppetIdentity ==
    /\ pc = "idle"
    /\ applied.fn = "none"
    /\ \E node_id \in AnyNodeIds :
        applied' = [fn |-> "localpart_from_node_id", input |-> node_id,
                    result |->
                        [localpart |-> localpart_from_node_id(node_id),
                         user_id |->
                             user_id(localpart_from_node_id(node_id)),
                         key |-> NodeKey(node_id)]]
    /\ UNCHANGED <<listener, exchange, calls, txn>>
    /\ UNCHANGED loopVars
    /\ UNCHANGED ckptVars

\* the caller has the result
ReturnResult ==
    /\ pc = "idle"
    /\ applied.fn # "none"
    /\ applied' = NoApplied
    /\ UNCHANGED <<listener, exchange, calls, txn>>
    /\ UNCHANGED loopVars
    /\ UNCHANGED ckptVars

\* ------------------------------------------------------- transaction ids
\* matrix.rs: MatrixAppserviceClient is Clone and its clones share
\* txn_counter, an Arc<AtomicU64>.

\* The number of sends of a run
MaxSends == 3

\* A send of one clone: where it is, the id it took, and the id of the
\* failed send it retries (None: a message sent for the first time)
Sending(at, txn_id, retry_of) ==
    [pc |-> at, txn_id |-> txn_id, retry_of |-> retry_of]
NotSending == Sending("idle", None, None)

\* The counter, the ids taken from it in the order they were taken, and the
\* sends
Txn(counter, taken, sends) ==
    [counter |-> counter, taken |-> taken, sends |-> sends]
NoTxn == Txn(0, <<>>, [c \in Callers |-> NotSending])

\* send_formatted_message_as: txn_counter.fetch_add(1, Ordering::SeqCst),
\* one atomic step, then the request is on its way
TakeTxnId(c) ==
    /\ pc = "idle"
    /\ txn.sends[c].pc = "idle"
    /\ Len(txn.taken) < MaxSends
    /\ txn' = Txn(txn.counter + 1,
                  Append(txn.taken, txn.counter),
                  [txn.sends EXCEPT ![c] =
                      Sending("sending", txn.counter, @.retry_of)])
    /\ UNCHANGED <<listener, exchange, calls, applied>>
    /\ UNCHANGED loopVars
    /\ UNCHANGED ckptVars

\* a failed send giving its id back to the counter
SendReturns_ReleasesTxnId(c) ==
    /\ pc = "idle"
    /\ txn.sends[c].pc = "sending"
    /\ \E r \in Responses :
        txn' = IF send_formatted_message_as_ok(r)
               THEN Txn(txn.counter, txn.taken,
                        [txn.sends EXCEPT ![c] = NotSending])
               ELSE Txn(txn.counter - 1, txn.taken,
                        [txn.sends EXCEPT ![c] =
                            Sending("idle", None, @.txn_id)])
    /\ UNCHANGED <<listener, exchange, calls, applied>>
    /\ UNCHANGED loopVars
    /\ UNCHANGED ckptVars

\* send_formatted_message_as returns: Ok, or Err and the message is left to
\* be sent again
SendReturns(c) ==
    /\ pc = "idle"
    /\ txn.sends[c].pc = "sending"
    /\ \E r \in Responses :
        txn' = IF send_formatted_message_as_ok(r)
               THEN Txn(txn.counter, txn.taken,
                        [txn.sends EXCEPT ![c] = NotSending])
               ELSE Txn(txn.counter, txn.taken,
                        [txn.sends EXCEPT ![c] =
                            Sending("idle", None, @.txn_id)])
    /\ UNCHANGED <<listener, exchange, calls, applied>>
    /\ UNCHANGED loopVars
    /\ UNCHANGED ckptVars

\* --------------------------------------------------------- specifications

LoopInit(isFair) ==
    /\ disk = MissingFile
    /\ state = load(disk)
    /\ pc = "fetch"
    /\ msgs = <<>>
    /\ nodes_cache = EmptyCache
    /\ upstream \in UpstreamTables
    /\ fair = isFair
    /\ faults = 0
    /\ sent = {}
    /\ failed = {}
    /\ outcome = "none"
    /\ before = NoSnapshot
    /\ writes = 0
    /\ params = NoParams
    /\ fetched = <<>>
    /\ sync = "synced"
    /\ registered = "none"
    /\ listener = NoListener
    /\ exchange = NoExchange
    /\ calls = NoCalls
    /\ applied = NoApplied
    /\ txn = NoTxn
    /\ lastOp = NoOp
    /\ probe = NoMsg
    /\ probeRecorded = FALSE

Init == LoopInit(FALSE)

Next ==
    \/ FetchMessages(Batches)
    \/ EndOfBatch
    \/ RejectMessage
    \/ PortFilter
    \/ PersistFiltered
    \/ BeginRelay
    \/ GetNode
    \/ EnsureUserRegistered
    \/ EnsureUserJoinedRoom
    \/ SetDisplayName
    \/ SendMessage
    \/ PersistRelayed
    \/ Sleep
    \/ Restart

Spec == Init /\ [][Next]_vars

LiveInit == LoopInit(TRUE)

LiveNext ==
    \/ FetchMessages(FullBatches)
    \/ EndOfBatch
    \/ RejectMessage
    \/ PortFilter
    \/ PersistFiltered
    \/ BeginRelay
    \/ GetNode
    \/ EnsureUserRegistered
    \/ EnsureUserJoinedRoom
    \/ SetDisplayName
    \/ SendMessage
    \/ PersistRelayed
    \/ Sleep

LiveSpec == LiveInit /\ [][LiveNext]_vars /\ WF_vars(LiveNext)

\* One process lifetime: main loads the state file it finds, a missing one,
\* one a release without receipt times wrote (the id alone) or one with a
\* recorded message, and the loop runs without being started again
LifeFiles ==
    {MissingFile,
     save([DefaultState EXCEPT !.last_message_id = 1]),
     save([DefaultState EXCEPT !.last_message_id = 1, !.last_rx_time = 1,
                               !.last_rx_time_ids = <<1>>])}

LifeInit ==
    /\ disk \in LifeFiles
    /\ state = load(disk)
    /\ pc = "fetch"
    /\ msgs = <<>>
    /\ nodes_cache = EmptyCache
    /\ upstream \in UpstreamTables
    /\ fair = FALSE
    /\ faults = 0
    /\ sent = {}
    /\ failed = {}
    /\ outcome = "none"
    /\ before = NoSnapshot
    /\ writes = 0
    /\ params = NoParams
    /\ fetched = <<>>
    /\ sync = "synced"
    /\ registered = "none"
    /\ listener = NoListener
    /\ exchange = NoExchange
    /\ calls = NoCalls
    /\ applied = NoApplied
    /\ txn = NoTxn
    /\ lastOp = NoOp
    /\ probe = NoMsg
    /\ probeRecorded = FALSE

LifeNext ==
    \/ FetchMessages(Batches)
    \/ EndOfBatch
    \/ RejectMessage
    \/ PortFilter
    \/ PersistFiltered
    \/ BeginRelay
    \/ GetNode
    \/ EnsureUserRegistered
    \/ EnsureUserJoinedRoom
    \/ SetDisplayName
    \/ SendMessage
    \/ PersistRelayed
    \/ Sleep

LifeSpec == LifeInit /\ [][LifeNext]_vars

CkptInit(states) ==
    /\ state \in states
    /\ disk = MissingFile
    /\ pc = "idle"
    /\ msgs = <<>>
    /\ nodes_cache = EmptyCache
    /\ upstream = [id \in UpstreamIds |-> [rx_time |-> 1, portnum |-> NoPort]]
    /\ fair = FALSE
    /\ faults = 0
    /\ sent = {}
    /\ failed = {}
    /\ outcome = "none"
    /\ before = NoSnapshot
    /\ writes = 0
    /\ params = NoParams
    /\ fetched = <<>>
    /\ sync = "synced"
    /\ registered = "none"
    /\ listener = NoListener
    /\ exchange = NoExchange
    /\ calls = NoCalls
    /\ applied = NoApplied
    /\ txn = NoTxn
    /\ lastOp = NoOp
    /\ probe \in Messages
    /\ probeRecorded = FALSE

CkptNext == UpdateWith \/ ShouldForward

CkptSpec == CkptInit(AllStates) /\ [][CkptNext]_vars

FreshSpec == CkptInit({DefaultState}) /\ [][CkptNext]_vars

PlanNext == BuildFetchParams \/ UpdateWith

PlanSpec == CkptInit(AllStates) /\ [][PlanNext]_vars

\* The forwarding loop of one process, every external call returning and
\* any number of them failing, every fetch returning every upstream message
\* (the messages all of one receipt time, the first of them of either kind)
RunInit ==
    /\ disk = MissingFile
    /\ state = load(disk)
    /\ pc = "fetch"
    /\ msgs = <<>>
    /\ nodes_cache = EmptyCache
    /\ upstream \in {t \in UpstreamTables :
                        \A id \in UpstreamIds :
                            /\ t[id].rx_time = 1
                            /\ t[id].portnum # "POSITION_APP" \/ id = 1}
    /\ fair = FALSE
    /\ faults = 0
    /\ sent = {}
    /\ failed = {}
    /\ outcome = "none"
    /\ before = NoSnapshot
    /\ writes = 0
    /\ params = NoParams
    /\ fetched = <<>>
    /\ sync = "synced"
    /\ registered = "none"
    /\ listener = NoListener
    /\ exchange = NoExchange
    /\ calls = NoCalls
    /\ applied = NoApplied
    /\ txn = NoTxn
    /\ lastOp = NoOp
    /\ probe = NoMsg
    /\ probeRecorded = FALSE

RunSpec == RunInit /\ [][LiveNext]_vars /\ WF_vars(LiveNext)

\* The documents a state file can hold, those of older versions with
\* last_checked_at included
AllFiles ==
    {MissingFile, EmptyFile, WhitespaceFile, GarbageFile}
        \cup {[content |-> "json", doc |-> d] :
                 d \in [last_message_id : Ids \cup {None},
                        last_rx_time : Times \cup {None},
                        last_rx_time_ids : SeqsWithoutRepetition(Ids),
                        last_checked_at : Times \cup {None}]}

\* a call of BridgeState::load(path)
LoadState ==
    /\ pc = "idle"
    /\ state' = IF load_ok(disk) THEN load(disk) ELSE state
    /\ lastOp' = [op |-> "load", msg |-> NoMsg, result |-> load_ok(disk)]
    /\ UNCHANGED <<disk, pc, msgs, nodes_cache, upstream, fair, faults,
                   sent, failed, outcome, before, writes, registered>>
    /\ UNCHANGED histVars
    /\ UNCHANGED <<probe, probeRecorded>>
    /\ UNCHANGED otherVars

\* a call of state.save(path) that succeeds
SaveState ==
    /\ pc = "idle"
    /\ disk' = save(state)
    /\ lastOp' = [op |-> "save", msg |-> NoMsg, result |-> TRUE]
    /\ UNCHANGED <<state, pc, msgs, nodes_cache, upstream, fair, faults,
                   sent, failed, outcome, before, writes, registered>>
    /\ UNCHANGED histVars
    /\ UNCHANGED <<probe, probeRecorded>>
    /\ UNCHANGED otherVars

\* The forwarding loop at rest, for the specifications of the parts that
\* run beside it
IdleLoop ==
    /\ pc = "idle"
    /\ msgs = <<>>
    /\ upstream = [id \in UpstreamIds |-> [rx_time |-> 1, portnum |-> NoPort]]
    /\ fair = FALSE
    /\ faults = 0
    /\ sent = {}
    /\ failed = {}
    /\ outcome = "none"
    /\ before = NoSnapshot
    /\ writes = 0
    /\ params = NoParams
    /\ fetched = <<>>
    /\ sync = "synced"
    /\ registered = "none"
    /\ lastOp = NoOp
    /\ probe = NoMsg
    /\ probeRecorded = FALSE

\* load and save on their own: a checkpoint in memory and no file yet, or a
\* file of any content and nothing loaded yet
FileInit ==
    /\ IdleLoop
    /\ \/ state \in AllStates /\ disk = MissingFile
       \/ state = DefaultState /\ disk \in AllFiles
    /\ nodes_cache = EmptyCache
    /\ listener = NoListener
    /\ exchange = NoExchange
    /\ calls = NoCalls
    /\ applied = NoApplied
    /\ txn = NoTxn

FileNext == LoadState \/ SaveState

FileSpec == FileInit /\ [][FileNext]_vars

\* The functions of names, bodies and identities called on their own
PureInit ==
    /\ IdleLoop
    /\ state = DefaultState
    /\ disk = MissingFile
    /\ nodes_cache = EmptyCache
    /\ listener = NoListener
    /\ exchange = NoExchange
    /\ calls = NoCalls
    /\ applied = NoApplied
    /\ txn = NoTxn

PureNext ==
    \/ DisplayNameForNode
    \/ FormatMessageBodies
    \/ PuppetIdentity
    \/ ReturnResult

PureSpec == PureInit /\ [][PureNext]_vars

\* The clones of one client sending: the counter starts at the clock's
\* milliseconds, here 0 or 1
TxnInit ==
    /\ IdleLoop
    /\ state = DefaultState
    /\ disk = MissingFile
    /\ nodes_cache = EmptyCache
    /\ listener = NoListener
    /\ exchange = NoExchange
    /\ calls = NoCalls
    /\ applied = NoApplied
    /\ txn \in {Txn(start, <<>>, [c \in Callers |-> NotSending]) :
                   start \in 0..1}

TxnNext == \E c \in Callers : TakeTxnId(c) \/ SendReturns(c)

TxnSpec == TxnInit /\ [][TxnNext]_vars

\* The listener alone: a secret is configured, the task is spawned and
\* requests arrive
ListenerInit ==
    /\ IdleLoop
    /\ state = DefaultState
    /\ disk = MissingFile
    /\ nodes_cache = EmptyCache
    /\ listener \in {Listener("starting", t) : t \in Secrets}
    /\ exchange = NoExchange
    /\ calls = NoCalls
    /\ applied = NoApplied
    /\ txn = NoTxn

ListenerNext ==
    \/ BindListener
    \/ ListenerFails
    \/ HandleTransaction(Requests)
    \/ AwaitRequest

ListenerSpec == ListenerInit /\ [][ListenerNext]_vars

\* Tasks sharing a PotatoClient
CacheInit ==
    /\ IdleLoop
    /\ state = DefaultState
    /\ disk = MissingFile
    /\ nodes_cache = EmptyCache
    /\ listener = NoListener
    /\ exchange = NoExchange
    /\ calls = NoCalls
    /\ applied = NoApplied
    /\ txn = NoTxn

CacheNext ==
    \E c \in Callers :
        \/ CallGetNode(c)
        \/ CacheLookup(c)
        \/ NodeRequest(c)
        \/ CacheInsert(c)
        \/ ReturnNode(c)

CacheSpec == CacheInit /\ [][CacheNext]_vars

\* main: the listener is spawned, the state file is loaded and the loop
\* polls, every fetch returning every upstream message
BridgeInit ==
    /\ disk = MissingFile
    /\ state = load(disk)
    /\ pc = "fetch"
    /\ msgs = <<>>
    /\ nodes_cache = EmptyCache
    /\ upstream \in UpstreamTables
    /\ fair = FALSE
    /\ faults = 0
    /\ sent = {}
    /\ failed = {}
    /\ outcome = "none"
    /\ before = NoSnapshot
    /\ writes = 0
    /\ params = NoParams
    /\ fetched = <<>>
    /\ sync = "synced"
    /\ registered = "none"
    /\ listener = Listener("starting", <<65>>)
    /\ exchange = NoExchange
    /\ calls = NoCalls
    /\ applied = NoApplied
    /\ txn = NoTxn
    /\ lastOp = NoOp
    /\ probe = NoMsg
    /\ probeRecorded = FALSE

BridgeNext ==
    \/ LiveNext
    \/ BindListener
    \/ ListenerFails
    \/ HandleTransaction(FewRequests)
    \/ AwaitRequest

BridgeSpec == BridgeInit /\ [][BridgeNext]_vars

\* ----------------------------------------------------------------- claims

\* The checkpoint `s` records id: as last_message_id or in last_rx_time_ids
Records(s, id) == s.last_message_id = id \/ Contains(s.last_rx_time_ids, id)

\* C1 (LiveSpec): at-least-once delivery. Every fetch returns every upstream
\* message and only finitely many calls fail, so the claim is that every
\* text message is eventually sent.
C1_AtLeastOnce ==
    \A id \in UpstreamIds : <>(IsText(UpstreamMsg(id)) => id \in sent)

\* C2: retry on the next cycle. At the start of a poll cycle every message
\* whose handle_message failed in the cycle before (and that no later
\* position of that batch sent) is admitted by should_forward.
C2_RetryNextCycle ==
    pc = "fetch" =>
        \A id \in failed \ sent : should_forward(state, UpstreamMsg(id))

\* C3: a failed relay changes nothing for that message. The step in which
\* handle_message fails leaves the in-memory checkpoint and the state file as
\* they were when the message was examined, no persist_state was called for
\* the message, and poll_once is at the next message of the batch.
C3_FailedRelayChangesNothing ==
    [][(outcome = "pending" /\ outcome' = "failed") =>
          /\ state' = before.state
          /\ disk' = before.disk
          /\ writes' = 0
          /\ pc' = "examine"
          /\ msgs' = Tail(msgs)]_vars

\* C3 witness: a relay failed after an earlier message was recorded, and
\* poll_once stands at a next message
C3_Witness ==
    /\ outcome = "failed"
    /\ pc = "examine"
    /\ msgs # <<>>
    /\ state.last_message_id # None
    /\ disk.content = "json"

\* C4: checkpoint writes never run ahead of relay. At every step, restarts
\* included, (1) a text message the state file records, as last_message_id or
\* in last_rx_time_ids, has been sent; (2) a restart makes no unsent text
\* message rejected: what the reloaded file rejects, the in-memory checkpoint
\* rejects already.
C4_WritesNeverAheadOfRelay ==
    \A id \in UpstreamIds :
        IsText(UpstreamMsg(id)) =>
            /\ Records(load(disk), id) => id \in sent
            /\ (id \notin sent /\ ~should_forward(load(disk), UpstreamMsg(id)))
                   => ~should_forward(state, UpstreamMsg(id))

\* C4 witness: after a restart (the node cache is empty again) the reloaded
\* file records a sent text message, and another sent message is admitted
\* again because its write did not reach the file
C4_Witness ==
    /\ pc = "fetch"
    /\ nodes_cache = EmptyCache
    /\ state = load(disk)
    /\ \E id \in sent : IsText(UpstreamMsg(id)) /\ Records(state, id)
    /\ \E id \in sent : should_forward(state, UpstreamMsg(id))

\* C5 (CkptSpec): idempotent tie-break. Once update_with(probe) has been
\* called, whatever update_with calls follow, should_forward(probe) is false.
C5_RecordedIsRejected ==
    probeRecorded => ~should_forward(state, probe)

\* C5 witness: the probe was recorded, another message was recorded at the
\* same time after it, and should_forward(probe) returned false
C5_Witness ==
    /\ probeRecorded
    /\ lastOp.op = "should_forward"
    /\ lastOp.msg = probe
    /\ ~lastOp.result
    /\ state.last_rx_time = probe.rx_time
    /\ state.last_message_id # probe.id
    /\ Len(state.last_rx_time_ids) >= 2

\* C6 (FreshSpec): last_message_id never moves backward along a sequence of
\* update_with calls.
C6_LastMessageIdMonotonic ==
    [][state.last_message_id # None =>
          state'.last_message_id >= state.last_message_id]_vars

\* C7 (CkptSpec): last_rx_time never moves backward and, once set, is never
\* unset, whatever messages update_with is called with.
C7_LastRxTimeMonotonic ==
    [][state.last_rx_time # None =>
          /\ state'.last_rx_time # None
          /\ state'.last_rx_time >= state.last_rx_time]_vars

\* C7 witness: update_with was called with a message older than the checkpoint
C7_Witness ==
    /\ lastOp.op = "update_with"
    /\ lastOp.msg.rx_time < state.last_rx_time
    /\ state.last_message_id = lastOp.msg.id

\* C8 (FreshSpec): checkpoint invariant. last_rx_time_ids is non-empty only
\* when last_rx_time is set, and an id in it was recorded at exactly
\* last_rx_time: for the probe, if its id is in last_rx_time_ids while its
\* receipt time is last_rx_time, update_with(probe) has been called.
C8_IdsShareLastRxTime ==
    /\ state.last_rx_time = None => state.last_rx_time_ids = <<>>
    /\ (Contains(state.last_rx_time_ids, probe.id)
            /\ state.last_rx_time = probe.rx_time) => probeRecorded

\* C8 witness: last_rx_time advanced past an earlier recorded time, two ids
\* share it, and the last call (an older message) left them alone
C8_Witness ==
    /\ Len(state.last_rx_time_ids) >= 2
    /\ state.last_rx_time > 1
    /\ Contains(state.last_rx_time_ids, probe.id)
    /\ state.last_rx_time = probe.rx_time
    /\ lastOp.op = "update_with"
    /\ lastOp.msg.rx_time < state.last_rx_time

\* C9 (CkptSpec): should_forward with a timestamp checkpoint. The result is
\* true for a later receipt time, false for an earlier one, and at an equal
\* one true exactly when the id is not in last_rx_time_ids; last_message_id
\* plays no part.
C9_ShouldForwardByRxTime ==
    (lastOp.op = "should_forward" /\ state.last_rx_time # None) =>
        /\ lastOp.result =
              (\/ lastOp.msg.rx_time > state.last_rx_time
               \/ /\ lastOp.msg.rx_time = state.last_rx_time
                  /\ \A i \in 1..Len(state.last_rx_time_ids) :
                        state.last_rx_time_ids[i] # lastOp.msg.id)
        /\ \A x \in Ids \cup {None} :
              should_forward([state EXCEPT !.last_message_id = x], lastOp.msg)
                  = lastOp.result

\* C9 witness: a message at last_rx_time whose id is recorded there is
\* rejected although its id is greater than last_message_id
C9_Witness ==
    /\ lastOp.op = "should_forward"
    /\ state.last_rx_time = lastOp.msg.rx_time
    /\ Contains(state.last_rx_time_ids, lastOp.msg.id)
    /\ lastOp.msg.id > state.last_message_id
    /\ ~lastOp.result

\* C10 (CkptSpec): should_forward without a timestamp checkpoint. The empty
\* checkpoint admits every message; with only last_message_id set a message
\* is admitted exactly when its id is strictly greater, at any receipt time.
C10_ShouldForwardById ==
    (lastOp.op = "should_forward" /\ state.last_rx_time = None) =>
        lastOp.result =
            (state.last_message_id = None \/ lastOp.msg.id > state.last_message_id)

\* C10 witness: with only last_message_id set, a message with that id is
\* rejected
C10_Witness ==
    /\ lastOp.op = "should_forward"
    /\ state.last_rx_time = None
    /\ state.last_message_id = lastOp.msg.id
    /\ ~lastOp.result

C12_ResetOnAdvance ==
    [][lastOp'.op = "update_with" =>
          LET m == lastOp'.msg
          IN  /\ (state.last_rx_time = None \/ m.rx_time > state.last_rx_time) =>
                    /\ state'.last_rx_time = m.rx_time
                    /\ state'.last_rx_time_ids = <<m.id>>
              /\ (state.last_rx_time # None /\ m.rx_time = state.last_rx_time) =>
                    /\ state'.last_rx_time = state.last_rx_time
                    /\ state'.last_rx_time_ids =
                          IF \E i \in 1..Len(state.last_rx_time_ids) :
                                state.last_rx_time_ids[i] = m.id
                          THEN state.last_rx_time_ids
                          ELSE state.last_rx_time_ids \o <<m.id>>
              /\ (state.last_rx_time # None /\ m.rx_time < state.last_rx_time) =>
                    /\ state'.last_rx_time = state.last_rx_time
                    /\ state'.last_rx_time_ids = state.last_rx_time_ids]_vars

\* C12 witness: the probe was recorded at an earlier receipt time, and the
\* last update_with advanced last_rx_time and left its own id alone in the
\* list
C12_Witness ==
    /\ probeRecorded
    /\ lastOp.op = "update_with"
    /\ probe.rx_time < lastOp.msg.rx_time
    /\ probe.id # lastOp.msg.id
    /\ state.last_rx_time = lastOp.msg.rx_time
    /\ state.last_rx_time_ids = <<lastOp.msg.id>>

\* C13 (CkptSpec): record on a rejected message is harmless. update_with
\* called with a message should_forward rejects leaves last_rx_time and
\* last_rx_time_ids as they were, and keeps the invariants of the checkpoint:
\* ids only with a last_rx_time, last_message_id and last_rx_time not moving
\* backward.
C13_RejectedRecordIsHarmless ==
    [][(lastOp'.op = "update_with" /\ ~should_forward(state, lastOp'.msg)) =>
          /\ state'.last_rx_time = state.last_rx_time
          /\ state'.last_rx_time_ids = state.last_rx_time_ids
          /\ state'.last_rx_time = None => state'.last_rx_time_ids = <<>>
          /\ state.last_message_id # None =>
                state'.last_message_id >= state.last_message_id]_vars

\* C14 (PlanSpec): planner selection. build_fetch_params returns no limit and
\* no since when last_message_id is unset, whatever last_rx_time is; since =
\* last_rx_time and no limit when both are set; limit = 10 and no since when
\* only last_message_id is set; never a limit together with a since; and
\* the checkpoint is the same after the call.
C14_PlannerSelection ==
    [][lastOp'.op = "build_fetch_params" =>
          /\ state' = state
          /\ state.last_message_id = None =>
                params' = [limit |-> None, since |-> None]
          /\ (state.last_message_id # None /\ state.last_rx_time # None) =>
                params' = [limit |-> None, since |-> state.last_rx_time]
          /\ (state.last_message_id # None /\ state.last_rx_time = None) =>
                params' = [limit |-> SmallWindow, since |-> None]
          /\ ~(params'.limit # None /\ params'.since # None)]_vars

\* C14 witness: the plan built from a checkpoint with last_rx_time but no
\* last_message_id asks for everything
C14_Witness ==
    /\ lastOp.op = "build_fetch_params"
    /\ state.last_message_id = None
    /\ state.last_rx_time # None
    /\ params = [limit |-> None, since |-> None]

\* C15: a failed fetch aborts the cycle without side effects. The step in
\* which fetch_messages fails leaves the checkpoint, the state file, the node
\* cache and the sent messages as they were and goes to the sleep of main;
\* until the next fetch no node lookup and no chat call is made, and the plan
\* build_fetch_params gives at the next cycle is the plan of the failed fetch.
C15_FetchFailureHasNoEffect ==
    [][/\ (pc = "fetch" /\ pc' = "sleep") =>
             /\ state' = state
             /\ disk' = disk
             /\ writes' = 0
             /\ nodes_cache' = nodes_cache
             /\ sent' = sent
             /\ msgs' = <<>>
             /\ outcome' = "fetch_failed"
             /\ params' = build_fetch_params(state)
       /\ outcome = "fetch_failed" =>
             /\ pc \in {"sleep", "fetch"}
             /\ build_fetch_params(state) = params
             /\ pc' \in {"sleep", "fetch", "examine"}
       /\ (outcome = "fetch_failed" /\ pc = "sleep" /\ outcome' = outcome) =>
             /\ pc' = "fetch"
             /\ state' = state
             /\ disk' = disk
             /\ nodes_cache' = nodes_cache
             /\ sent' = sent
             /\ params' = params]_vars

\* C15 witness: after messages were recorded and written a fetch failed, and
\* the next cycle is about to fetch with the plan of the failed one
C15_Witness ==
    /\ outcome = "fetch_failed"
    /\ pc = "fetch"
    /\ disk.content = "json"
    /\ state.last_rx_time # None
    /\ params = [limit |-> None, since |-> state.last_rx_time]

\* C16: only admitted messages change state. The step that skips a message
\* should_forward rejects leaves the checkpoint, the state file, the node
\* cache and the sent messages as they were, calls persist_state not once and
\* goes to the next message; the fetch, the end of the batch and the sleep of
\* main change neither the checkpoint nor the file. (A cycle whose batch is
\* empty or all rejected is made of these steps only.)
C16_OnlyAdmittedChangeState ==
    [][/\ (/\ pc = "examine"
           /\ msgs # <<>>
           /\ ~should_forward(state, Head(msgs))
           /\ pc' # "fetch") =>
             /\ state' = state
             /\ disk' = disk
             /\ nodes_cache' = nodes_cache
             /\ sent' = sent
             /\ writes' = 0
             /\ pc' = "examine"
             /\ msgs' = Tail(msgs)
       /\ (pc = "fetch" /\ pc' \in {"examine", "sleep"}) =>
             (state' = state /\ disk' = disk)
       /\ (pc = "examine" /\ msgs = <<>> /\ pc' # "fetch") =>
             (state' = state /\ disk' = disk /\ pc' = "sleep")
       /\ (pc = "sleep" /\ outcome' = outcome) =>
             (state' = state /\ disk' = disk /\ pc' = "fetch")]_vars

\* C16 witness: a cycle ended on a rejected message while the state file was
\* behind the checkpoint, and the file was not written
C16_Witness ==
    /\ outcome = "rejected"
    /\ pc = "sleep"
    /\ sync = "behind"
    /\ load(disk) # state

\* C17: port filter. An admitted message with a portnum other than
\* TEXT_MESSAGE_APP is recorded with update_with and persist_state is called
\* once for it, with no node lookup and no chat call, before the next message;
\* an admitted message with no portnum or with TEXT_MESSAGE_APP enters
\* handle_message, and only such messages are there.
C17_PortFilter ==
    [][/\ (/\ pc = "examine"
           /\ msgs # <<>>
           /\ should_forward(state, Head(msgs))
           /\ pc' # "fetch") =>
             IF Head(msgs).portnum \notin {NoPort, TEXT_MESSAGE_APP}
             THEN /\ state' = update_with(state, Head(msgs))
                  /\ pc' = "persist_filtered"
                  /\ msgs' = msgs
                  /\ nodes_cache' = nodes_cache
                  /\ sent' = sent
             ELSE /\ pc' = "get_node"
                  /\ state' = state
                  /\ disk' = disk
                  /\ msgs' = msgs
       /\ (pc = "persist_filtered" /\ pc' # "fetch") =>
             /\ pc' = "examine"
             /\ writes' = 1
             /\ disk' \in {persist_state(state, disk, w) : w \in WriteResults}
             /\ state' = state
             /\ nodes_cache' = nodes_cache
             /\ sent' = sent
             /\ msgs' = Tail(msgs)
             /\ outcome' = "filtered"
       /\ pc \in {"get_node", "register", "join", "display_name", "send", "persist"} =>
             /\ msgs # <<>>
             /\ Head(msgs).portnum \in {NoPort, TEXT_MESSAGE_APP}]_vars

\* C17 witness: a message of another port was recorded and written with
\* nothing sent and no node looked up, and a message without portnum has
\* entered handle_message
C17_Witness ==
    /\ pc = "get_node"
    /\ Head(msgs).portnum = NoPort
    /\ disk.content = "json"
    /\ disk = save(state)
    /\ sent = {}
    /\ nodes_cache = EmptyCache

\* C18: one write per processed message. While a message is being written it
\* is still the first of msgs and the checkpoint records it; a message that
\* was relayed or filtered had exactly one call of persist_state before the
\* next one is examined; and unless a write has failed since the last one
\* that succeeded, between two messages the checkpoint loaded from the state
\* file (the empty one when the file is missing) is the in-memory checkpoint.
C18_OneWritePerMessage ==
    /\ pc \in {"persist", "persist_filtered"} =>
          /\ msgs # <<>>
          /\ writes = 0
          /\ Records(state, Head(msgs).id)
    /\ outcome \in {"relayed", "filtered"} => writes = 1
    /\ (pc \in {"examine", "sleep", "fetch"} /\ sync # "behind") =>
          load(disk) = state

\* C18 witness: a relayed message was written, the file holds the checkpoint,
\* and the next message of the batch is about to be examined
C18_Witness ==
    /\ outcome = "relayed"
    /\ pc = "examine"
    /\ msgs # <<>>
    /\ writes = 1
    /\ sync = "synced"
    /\ disk = save(state)

\* C19: persistence errors do not stop progress. Whatever the write does, the
\* step of persist_state keeps the advanced in-memory checkpoint and goes to
\* the next message; a failed write leaves the file as it was or empty; a
\* write that succeeds, after failed ones too, stores the whole in-memory
\* checkpoint.
C19_WriteFailureKeepsProgress ==
    [][(pc \in {"persist", "persist_filtered"} /\ pc' = "examine") =>
          /\ state' = state
          /\ Records(state', Head(msgs).id)
          /\ msgs' = Tail(msgs)
          /\ sync' = "behind" => disk' \in {disk, EmptyFile}
          /\ sync' # "behind" => (disk' = save(state') /\ load(disk') = state')
          /\ sync = "behind" => sync' \in {"behind", "caught_up"}]_vars

\* C19 witness: a write failed, the loop went on, and the write for a later
\* message stored the whole checkpoint
C19_Witness ==
    /\ sync = "caught_up"
    /\ outcome = "relayed"
    /\ disk = save(state)
    /\ load(disk) = state

\* C20: processing order. The batch poll_once loops over holds, for every
\* receipt time, the messages of that time in the order upstream returned
\* them, and is ascending by receipt time; within a cycle messages are taken
\* from its front one at a time.
C20_ProcessingOrder ==
    [][/\ (pc = "fetch" /\ pc' = "examine") =>
             /\ Len(msgs') = Len(fetched')
             /\ \A t \in Times :
                   LET AtTime(m) == m.rx_time = t
                   IN  SelectSeq(msgs', AtTime) = SelectSeq(fetched', AtTime)
       /\ \A i \in 1..(Len(msgs') - 1) :
             msgs'[i].rx_time <= msgs'[i + 1].rx_time
       /\ (pc # "fetch" /\ pc' # "fetch") =>
             (msgs' = msgs \/ (msgs # <<>> /\ msgs' = Tail(msgs)))]_vars

\* C20 witness: upstream returned the later message first; the batch starts
\* with the earlier one although its id is the greater
C20_Witness ==
    /\ outcome = "fetched"
    /\ Len(msgs) = 2
    /\ fetched # msgs
    /\ msgs[1].rx_time < msgs[2].rx_time
    /\ msgs[1].id > msgs[2].id

\* C21, as stated: every failure of the puppet registration request leaves
\* the relay of the message going, so the step that takes the registration
\* call goes on to the join whatever the call returned.
C21_AnyRegistrationFailureIsSwallowed ==
    [][(pc = "register" /\ registered' \in Responses \ {"success"})
           => pc' = "join"]_vars

\* C21, amended: a registration request answered with a status that is no
\* success leaves the relay going (the join is next, nothing of the cycle
\* has changed, and the send that follows is recorded by the checkpoint); a
\* registration request that fails in transport ends handle_message with
\* an error: the message is failed and the checkpoint is left alone.
C21_RefusedRegistrationIsSwallowed ==
    [][/\ (pc = "register" /\ registered' = "status_error")
            => /\ pc' = "join"
               /\ <<state, disk, msgs, sent, failed>>' =
                      <<state, disk, msgs, sent, failed>>
       /\ (pc = "register" /\ registered' = "transport_error")
            => /\ pc' = "examine"
               /\ outcome' = "failed"
               /\ Head(msgs).id \in failed'
               /\ <<state, disk, sent>>' = <<state, disk, sent>>
       /\ (pc = "send" /\ pc' = "persist" /\ registered = "status_error")
            => /\ Head(msgs).id \in sent'
               /\ Records(state', Head(msgs).id)]_vars

\* a message whose registration was refused with a status has been sent
\* and recorded
C21_Witness ==
    /\ pc = "persist"
    /\ registered = "status_error"
    /\ Head(msgs).id \in sent
    /\ Records(state, Head(msgs).id)

\* The token of the source a handled request was checked against is, byte
\* for byte, the configured hs_token
PresentedIsSecret ==
    /\ exchange.handling.checked.token.some
    /\ exchange.handling.checked.token.value = listener.hs_token

\* C22: listener accept/reject. A request that reaches the handler is
\* answered 200 with {} and its transaction id and payload are logged exactly
\* when the presented token is the configured hs_token; with a token that
\* is missing or is not the hs_token it is answered 401 with {} and nothing
\* is logged.
C22_AcceptExactlyOnMatch ==
    (exchange.answered /\ exchange.handling.reached) =>
        IF PresentedIsSecret
        THEN /\ exchange.handling.response = Response(OK, EmptyObject)
             /\ exchange.handling.logged =
                    Logged(exchange.request.txn_id, exchange.request.body)
        ELSE /\ exchange.handling.response =
                    Response(UNAUTHORIZED, EmptyObject)
             /\ exchange.handling.logged = NoLog

\* C23: the token comparison is exact. Whatever token a request presents,
\* constant_time_eq of it and the hs_token is true if and only if the two
\* are the same byte string.
C23_ComparisonIsExact ==
    (exchange.answered /\ exchange.handling.checked.token.some) =>
        (constant_time_eq(exchange.handling.checked.token.value,
                          listener.hs_token)
            <=> exchange.handling.checked.token.value = listener.hs_token)

\* s begins with prefix
HasPrefix(s, prefix) ==
    /\ Len(s) >= Len(prefix)
    /\ \A i \in 1..Len(prefix) : s[i] = prefix[i]

\* s without its first n bytes
Drop(s, n) == [i \in 1..(Len(s) - n) |-> s[i + n]]

\* C24, as stated: the source checked is the Authorization header when it
\* carries a Bearer/bearer prefix, otherwise the x-access-token header when
\* the request has one, otherwise the access_token query parameter.
C24_PriorityByPresence ==
    (exchange.answered /\ exchange.handling.reached) =>
        LET headers == exchange.request.headers
            bearer ==
                /\ headers.authorization.some
                /\ \/ HasPrefix(headers.authorization.value, BearerPrefix)
                   \/ HasPrefix(headers.authorization.value, bearerPrefix)
        IN  exchange.handling.checked.source =
                IF bearer THEN "authorization"
                ELSE IF headers.x_access_token.some THEN "x_access_token"
                ELSE IF exchange.request.query.access_token.some THEN "query"
                ELSE "none"

\* C24, amended: a header counts as a source only when its value is text
\* (visible ASCII). The source checked is the Authorization header when it
\* is text with a Bearer/bearer prefix, otherwise the x-access-token header
\* when it is text, otherwise the access_token query parameter; the token
\* is what follows the prefix, or the alternate header's value, trimmed, or
\* the query parameter as it is; and a request is accepted only if the
\* token of that one source compares equal to the hs_token.
C24_PriorityByReadableSource ==
    (exchange.answered /\ exchange.handling.reached) =>
        LET headers == exchange.request.headers
            query == exchange.request.query
            checked == exchange.handling.checked
            Readable(v) == \A i \in 1..Len(v) : v[i] = 9 \/ v[i] \in 32..126
            bearer ==
                /\ headers.authorization.some
                /\ Readable(headers.authorization.value)
                /\ \/ HasPrefix(headers.authorization.value, BearerPrefix)
                   \/ HasPrefix(headers.authorization.value, bearerPrefix)
            alternate ==
                /\ headers.x_access_token.some
                /\ Readable(headers.x_access_token.value)
        IN  /\ checked.source =
                   IF bearer THEN "authorization"
                   ELSE IF alternate THEN "x_access_token"
                   ELSE IF query.access_token.some THEN "query"
                   ELSE "none"
            /\ checked.source = "authorization" =>
                   checked.token.value =
                       trim(Drop(headers.authorization.value,
                                 Len(BearerPrefix)))
            /\ checked.source = "x_access_token" =>
                   checked.token.value = trim(headers.x_access_token.value)
            /\ checked.source = "query" =>
                   checked.token.value = query.access_token.value
            /\ checked.source = "none" => ~checked.token.some
            /\ exchange.handling.response.status = OK =>
                   /\ checked.token.some
                   /\ constant_time_eq(checked.token.value,
                                       listener.hs_token)

\* a request with an alternate header that is not text is accepted on its
\* query parameter
C24_Witness ==
    /\ exchange.answered
    /\ exchange.request.headers.x_access_token = SomeString(<<OpaqueByte>>)
    /\ exchange.handling.checked.source = "query"
    /\ exchange.handling.response.status = OK

\* C25, as stated: every request to the transactions endpoint, whatever
\* its headers, query and body, is answered with {} and 200 or 401.
C25_AlwaysEmptyObject ==
    exchange.answered =>
        /\ exchange.handling.response.body = EmptyObject
        /\ exchange.handling.response.status \in {OK, UNAUTHORIZED}

\* C25, amended: every request that reaches the handler is answered with {}
\* and 200 or 401; a request whose query string or body the extractors of
\* the handler's arguments refuse never reaches it: it is answered with the
\* extractor's rejection, 400 or 415 and a text, and nothing is logged.
C25_HandlerAnswersEmptyObject ==
    exchange.answered =>
        IF exchange.handling.reached
        THEN /\ exchange.handling.response.body = EmptyObject
             /\ exchange.handling.response.status \in {OK, UNAUTHORIZED}
             /\ exchange.request.query.kind # "duplicate"
             /\ exchange.request.body = "json"
        ELSE /\ exchange.handling.response.body = RejectionText
             /\ exchange.handling.response.status \in
                    {BAD_REQUEST, UNSUPPORTED_MEDIA_TYPE}
             /\ exchange.handling.logged = NoLog
             /\ \/ exchange.request.query.kind = "duplicate"
                \/ exchange.request.body # "json"

\* a request with a JSON payload and the right token has been answered 200
C25_Witness ==
    /\ exchange.answered
    /\ exchange.handling.reached
    /\ exchange.handling.logged.some
    /\ exchange.handling.response = Response(OK, EmptyObject)

\* C26: the listener is isolated. A failure of the listener task, at the
\* bind or while serving, ends that task only: the step changes nothing of
\* the forwarding loop, and with the listener failed the loop is not
\* stopped, it always has its next step to take.
C26_ListenerFailureIsIsolated ==
    /\ [](listener.task = "failed" => ENABLED LiveNext)
    /\ [][(listener.task # "failed" /\ listener'.task = "failed")
             => UNCHANGED <<loopVars, ckptVars>>]_vars

\* the listener has failed and the loop is relaying a message
C26_Witness ==
    /\ listener.task = "failed"
    /\ pc = "persist"
    /\ Head(msgs).id \in sent

\* C27: the listener and the loop share no state. A step of the listener,
\* whenever it comes between the steps of a poll cycle, leaves the
\* checkpoint, the state file and the rest of the loop as they are, so
\* should_forward admits the same messages after it as before; and the
\* answer to a request is that of handle_transaction on the request and the
\* hs_token, whatever the checkpoint is.
C27_ListenerSharesNoState ==
    [][(listener' # listener \/ exchange' # exchange)
           => /\ UNCHANGED <<loopVars, ckptVars>>
              /\ \A id \in UpstreamIds :
                     should_forward(state', UpstreamMsg(id)) =
                         should_forward(state, UpstreamMsg(id))
              /\ exchange'.answered =>
                     exchange'.handling =
                         handle_transaction(exchange'.request,
                                            listener.hs_token)]_vars

\* a transaction was accepted while a message was being relayed and the
\* checkpoint had advanced
C27_Witness ==
    /\ exchange.answered
    /\ exchange.handling.response.status = OK
    /\ pc = "send"
    /\ state # DefaultState

\* C28: racing cache misses are safe. No lock is held from one step of
\* get_node to the next, so whatever the other calls are doing a call can
\* always take its next step (none blocks); the call that inserts returns
\* the node its own request fetched, and after its insert the cache holds
\* under the key that node, whole, and under every other key what it held
\* before: of two calls racing on one key, the entry is that of the later
\* insert.
C28_RacingMissesAreSafe ==
    /\ [](\A c \in Callers :
             /\ calls[c].pc = "lookup" => ENABLED CacheLookup(c)
             /\ calls[c].pc = "request" => ENABLED NodeRequest(c)
             /\ calls[c].pc = "insert" => ENABLED CacheInsert(c))
    /\ [][\A c \in Callers :
             (calls[c].pc = "insert" /\ calls'[c].pc = "done") =>
                 LET key == trim_start_matches(calls[c].node_id, "!")
                 IN  /\ calls'[c].result = OkNode(calls[c].fetched)
                     /\ DOMAIN nodes_cache' = DOMAIN nodes_cache \cup {key}
                     /\ nodes_cache'[key] = calls[c].fetched
                     /\ \A k \in DOMAIN nodes_cache \ {key} :
                            nodes_cache'[k] = nodes_cache[k]]_vars

\* two calls for one key have both missed, fetched different revisions of
\* the node and inserted them; the cache holds the one of the second call
C28_Witness ==
    /\ calls[1].pc = "done"
    /\ calls[2].pc = "done"
    /\ trim_start_matches(calls[1].node_id, "!") =
           trim_start_matches(calls[2].node_id, "!")
    /\ calls[1].result = OkNode(calls[1].fetched)
    /\ calls[2].result = OkNode(calls[2].fetched)
    /\ calls[1].fetched # calls[2].fetched
    /\ nodes_cache[trim_start_matches(calls[2].node_id, "!")] =
           calls[2].fetched

\* C29: the node cache. Its keys are node ids without a leading '!'; an
\* entry is never removed; a failed fetch inserts nothing and a call that
\* has fetched a node inserts it under its key; and a call whose key is
\* cached returns the cached node at once, without a request.
C29_NodeCache ==
    /\ [](\A k \in DOMAIN nodes_cache : k = <<>> \/ Head(k) # "!")
    /\ [][/\ DOMAIN nodes_cache \subseteq DOMAIN nodes_cache'
           /\ \A c \in Callers :
                 LET key == trim_start_matches(calls[c].node_id, "!")
                 IN  /\ (calls[c].pc = "request" /\ calls'[c].pc = "done")
                          => /\ ~calls'[c].result.ok
                             /\ nodes_cache' = nodes_cache
                     /\ (calls[c].pc = "insert" /\ calls'[c].pc # "insert")
                          => /\ key \in DOMAIN nodes_cache'
                             /\ nodes_cache'[key] = calls[c].fetched
                     /\ (calls[c].pc = "lookup" /\ calls'[c].pc # "lookup"
                            /\ key \in DOMAIN nodes_cache)
                          => /\ calls'[c].pc = "done"
                             /\ calls'[c].result = OkNode(nodes_cache[key])
                             /\ nodes_cache' = nodes_cache]_vars

\* a call for "!a" has returned, without a request of its own, the node
\* cached under "a"
C29_Witness ==
    \E c \in Callers :
        /\ calls[c].pc = "done"
        /\ calls[c].node_id = <<"!", "a">>
        /\ calls[c].fetched = NoNode
        /\ <<"a">> \in DOMAIN nodes_cache
        /\ calls[c].result = OkNode(nodes_cache[<<"a">>])

C31_AbsentFileIsEmptyCheckpoint ==
    [][(lastOp'.op = "load"
            /\ disk.content \in {"missing", "empty", "whitespace"})
           => /\ lastOp'.result
              /\ state'.last_message_id = None
              /\ state'.last_rx_time = None
              /\ state'.last_rx_time_ids = <<>>
              /\ disk' = disk]_vars

\* a file of white space only has been loaded, without error, as the
\* empty checkpoint
C31_Witness ==
    /\ lastOp = [op |-> "load", msg |-> NoMsg, result |-> TRUE]
    /\ disk = WhitespaceFile
    /\ state = DefaultState

\* C32 (RunSpec): the loop never stops on an error. Whatever calls fail,
\* the loop is always at one of its steps with that step able to return,
\* every poll cycle comes to its sleep, and every sleep is followed by the
\* fetch of another cycle.
C32_LoopNeverStops ==
    /\ [](ENABLED LiveNext)
    /\ []<>(pc = "sleep")
    /\ []<>(pc = "fetch")

\* a cycle in which a relay failed and a write of the state file failed
\* has come to its sleep
C32_Witness ==
    /\ pc = "sleep"
    /\ failed # {}
    /\ sync = "behind"

\* C33: the display name. display_name_for_node returns the long name, a
\* space and the trimmed short name in parentheses exactly when the node
\* has a short name that is not empty once trimmed and, trimmed, is not the
\* long name; in every other case it returns the long name alone.
C33_DisplayName ==
    applied.fn = "display_name_for_node" =>
        LET node == applied.input
            short == trim_end(trim_start(node.short_name.value))
        IN  IF node.short_name.some /\ Len(short) > 0
                   /\ short # node.long_name
            THEN /\ Len(applied.result) = Len(node.long_name) + Len(short) + 3
                 /\ SubSeq(applied.result, 1, Len(node.long_name)) =
                        node.long_name
                 /\ SubSeq(applied.result, Len(node.long_name) + 1,
                           Len(node.long_name) + 2) = <<32, 40>>
                 /\ SubSeq(applied.result, Len(node.long_name) + 3,
                           Len(applied.result) - 1) = short
                 /\ applied.result[Len(applied.result)] = 41
            ELSE applied.result = node.long_name

\* a short name with white space around it that, trimmed, is the long name:
\* the long name alone is returned
C33_Witness ==
    /\ applied.fn = "display_name_for_node"
    /\ applied.input.short_name = SomeString(<<32, 65>>)
    /\ applied.input.long_name = <<65>>
    /\ applied.result = <<65>>

RECURSIVE Unescape(_)
\* What a reader of HTML makes of s: each of the five entities is the
\* character it stands for, every other character is itself
Unescape(s) ==
    IF s = <<>> THEN <<>>
    ELSE IF HasPrefix(s, AmpEntity)
         THEN <<38>> \o Unescape(Drop(s, Len(AmpEntity)))
    ELSE IF HasPrefix(s, LtEntity)
         THEN <<60>> \o Unescape(Drop(s, Len(LtEntity)))
    ELSE IF HasPrefix(s, GtEntity)
         THEN <<62>> \o Unescape(Drop(s, Len(GtEntity)))
    ELSE IF HasPrefix(s, QuotEntity)
         THEN <<34>> \o Unescape(Drop(s, Len(QuotEntity)))
    ELSE IF HasPrefix(s, AposEntity)
         THEN <<39>> \o Unescape(Drop(s, Len(AposEntity)))
    ELSE <<Head(s)>> \o Unescape(Drop(s, 1))

\* the number of times ch occurs in s
Occurrences(s, ch) == Cardinality({i \in 1..Len(s) : s[i] = ch})

\* C34: message formatting. The plain body is a backquote, the prefix, a
\* backquote, a space and the text, both as they are. The rich body is
\* "<code>", the escaped prefix, "</code> " and the escaped text, where the
\* escaped form of a string holds none of < > " ' and reads back, entity by
\* entity, as the string itself (each of & < > " ' has become its entity,
\* once), so the only < > of the rich body are those of the two tags.
C34_MessageBodies ==
    applied.fn = "format_message_bodies" =>
        LET prefix == applied.input.prefix
            text == applied.input.text
            rich == applied.result.formatted_body
            split == CHOOSE k \in 0..Len(rich) :
                         /\ k >= Len(CodeOpen)
                         /\ HasPrefix(Drop(rich, k), CodeClose)
            escPrefix == SubSeq(rich, Len(CodeOpen) + 1, split)
            escText == Drop(rich, split + Len(CodeClose))
        IN  /\ applied.result.body = <<96>> \o prefix \o <<96, 32>> \o text
            /\ HasPrefix(rich, CodeOpen)
            /\ \E k \in Len(CodeOpen)..Len(rich) :
                   HasPrefix(Drop(rich, k), CodeClose)
            /\ \A ch \in {60, 62, 34, 39} :
                   /\ Occurrences(escPrefix, ch) = 0
                   /\ Occurrences(escText, ch) = 0
            /\ Unescape(escPrefix) = prefix
            /\ Unescape(escText) = text
            /\ Occurrences(rich, 60) = 2
            /\ Occurrences(rich, 62) = 2

\* a prefix and a text made of characters to escape have been formatted:
\* the & of the text is "&amp;" and the < of the prefix "&lt;"
C34_Witness ==
    /\ applied.fn = "format_message_bodies"
    /\ applied.input = [prefix |-> <<60, 38>>, text |-> <<38, 39>>]
    /\ applied.result.formatted_body =
           CodeOpen \o LtEntity \o AmpEntity \o CodeClose
               \o AmpEntity \o AposEntity

\* C35: the puppet identity. The localpart is "potato_" followed by the
\* node id without its leading sigils, the rest of the id as it is; the
\* user id is "@", the localpart, ":" and the server name; and a node id
\* with the sigil in front has the localpart, the user id and the cache
\* key of the node id without it.
C35_PuppetIdentity ==
    applied.fn = "localpart_from_node_id" =>
        LET node_id == applied.input
            localpart == applied.result.localpart
            rest == Drop(localpart, Len(PotatoPrefix))
            sigils == Len(node_id) - Len(rest)
        IN  /\ HasPrefix(localpart, PotatoPrefix)
            /\ sigils >= 0
            /\ \A i \in 1..sigils : node_id[i] = "!"
            /\ rest = Drop(node_id, sigils)
            /\ rest = <<>> \/ Head(rest) # "!"
            /\ applied.result.user_id =
                   <<"@">> \o localpart \o <<":">> \o server_name
            /\ applied.result.key = rest
            /\ localpart_from_node_id(<<"!">> \o rest) = localpart
            /\ localpart_from_node_id(rest) = localpart
            /\ NodeKey(<<"!">> \o rest) = NodeKey(rest)

\* the identity of the node id "!a" has been derived: that of "a"
C35_Witness ==
    /\ applied.fn = "localpart_from_node_id"
    /\ applied.input = <<"!", "a">>
    /\ applied.result.localpart = PotatoPrefix \o <<"a">>
    /\ applied.result.key = <<"a">>

\* where the loop stands inside handle_message
RelayPcs == {"get_node", "register", "join", "display_name", "send"}

\* C36: the order of the relay steps. handle_message reaches each call from
\* the one before it only: the node lookup from the loop, registration
\* after a lookup that was answered or cached, the join after a
\* registration that returned, the display name after a join that
\* succeeded, the send after the display name. A lookup, a join or a send
\* that fails ends the relay of the message with nothing sent and the
\* checkpoint as it was, and the checkpoint records the message only in the
\* step of a send that succeeded.
C36_RelayStepOrder ==
    [][/\ pc' = "get_node" => pc = "examine"
       /\ pc' = "register" =>
             /\ pc = "get_node"
             /\ faults' = faults
             /\ NodeKey(Head(msgs).node_id) \in DOMAIN nodes_cache'
       /\ pc' = "join" =>
             /\ pc = "register"
             /\ ensure_user_registered_ok(registered')
       /\ pc' = "display_name" => pc = "join" /\ faults' = faults
       /\ pc' = "send" => pc = "display_name"
       /\ (pc \in {"get_node", "join", "send"} /\ faults' # faults) =>
             /\ pc' = "examine"
             /\ msgs' = Tail(msgs)
             /\ Head(msgs).id \in failed'
             /\ state' = state
             /\ sent' = sent
       /\ (pc = "get_node" /\ pc' = "examine") => registered' = "none"
       /\ (pc \in RelayPcs /\ (state' # state \/ sent' # sent)) =>
             /\ pc = "send"
             /\ faults' = faults
             /\ pc' = "persist"
             /\ state' = update_with(state, Head(msgs))
             /\ sent' = sent \cup {Head(msgs).id}
      ]_vars

\* a node lookup has failed: the message is given up before any request to
\* the chat service, and nothing is recorded
C36_Witness ==
    /\ pc = "examine"
    /\ outcome = "failed"
    /\ registered = "none"
    /\ failed # {}
    /\ faults > 0
    /\ state = DefaultState

\* C37: no duplicate relay within one process lifetime. With one receipt
\* time per message id and no restart, a send that succeeds is the send of
\* a message that no earlier send of this run has delivered, whatever
\* failed before and however often the mesh API returns the message.
C37_NoDuplicateRelay ==
    [][(pc = "send" /\ pc' = "persist") => Head(msgs).id \notin sent]_vars

\* a message was sent, the write of its checkpoint failed, and the mesh API
\* has returned the message again: it is up for examination and refused
C37_Witness ==
    /\ pc = "examine"
    /\ msgs # <<>>
    /\ Head(msgs).id \in sent
    /\ sync = "behind"
    /\ ~should_forward(state, Head(msgs))

\* C38: relays are in the order of the receipt times. Within one process
\* lifetime a message is sent only when its receipt time is not below the
\* last one recorded, the send records its receipt time, and the receipt
\* time recorded never goes down: the receipt times of the messages sent
\* never decrease.
C38_RelaysInReceiptOrder ==
    [][/\ (pc = "send" /\ pc' = "persist") =>
             /\ state.last_rx_time # None
                   => Head(msgs).rx_time >= state.last_rx_time
             /\ state'.last_rx_time = Head(msgs).rx_time
       /\ state.last_rx_time # None =>
             /\ state'.last_rx_time # None
             /\ state'.last_rx_time >= state.last_rx_time
      ]_vars

\* after a send, a message received before the one sent comes up, never
\* sent itself: it is refused
C38_Witness ==
    /\ pc = "examine"
    /\ msgs # <<>>
    /\ sent # {}
    /\ Head(msgs).id \notin sent
    /\ state.last_rx_time # None
    /\ Head(msgs).rx_time < state.last_rx_time
    /\ ~should_forward(state, Head(msgs))

\* the checkpoint s is entirely empty, or has both last_message_id and
\* last_rx_time, with ids recorded at last_rx_time, none twice, the last of
\* them last_message_id
WellShaped(s) ==
    \/ s = DefaultState
    \/ /\ s.last_message_id # None
       /\ s.last_rx_time # None
       /\ s.last_rx_time_ids # <<>>
       /\ \A i \in 1..Len(s.last_rx_time_ids) :
             \A j \in 1..Len(s.last_rx_time_ids) :
                s.last_rx_time_ids[i] = s.last_rx_time_ids[j] => i = j
       /\ s.last_rx_time_ids[Len(s.last_rx_time_ids)] = s.last_message_id

TakenIds == {txn.taken[i] : i \in 1..Len(txn.taken)}

\* C40: transaction ids are never reused. The ids taken from the counter,
\* in the order the clones took them, are strictly increasing, the sends on
\* their way have distinct ids, and the counter is above every id taken;
\* a send takes an id that no send took before, greater than all of them,
\* and when it retries a failed send greater than the id that send had; a
\* send that fails leaves the counter and the ids taken as they are.
C40_TxnIdsNeverReused ==
    /\ [](/\ \A i \in 1..Len(txn.taken) : \A j \in 1..Len(txn.taken) :
                i < j => txn.taken[i] < txn.taken[j]
          /\ \A id \in TakenIds : id < txn.counter
          /\ \A c \in Callers : \A d \in Callers :
                (/\ c # d
                 /\ txn.sends[c].pc = "sending"
                 /\ txn.sends[d].pc = "sending")
                    => txn.sends[c].txn_id # txn.sends[d].txn_id)
    /\ [][\A c \in Callers :
            /\ (txn.sends[c].pc = "idle" /\ txn'.sends[c].pc = "sending") =>
                  LET id == txn'.sends[c].txn_id
                  IN  /\ id \notin TakenIds
                      /\ \A before_id \in TakenIds : id > before_id
                      /\ txn.sends[c].retry_of # None
                            => id > txn.sends[c].retry_of
                      /\ txn'.taken = Append(txn.taken, id)
            /\ (txn.sends[c].pc = "sending" /\ txn'.sends[c].pc = "idle") =>
                  /\ txn'.counter = txn.counter
                  /\ txn'.taken = txn.taken
                  /\ txn'.sends[c].retry_of # None
                        => txn'.sends[c].retry_of = txn.sends[c].txn_id
       ]_vars

\* a send has failed and is sent again, under another id, while the other
\* clone's send is on its way
C40_Witness ==
    /\ \A c \in Callers : txn.sends[c].pc = "sending"
    /\ \E c \in Callers :
          /\ txn.sends[c].retry_of # None
          /\ txn.sends[c].retry_of \in TakenIds
          /\ txn.sends[c].txn_id # txn.sends[c].retry_of

====
